---- MODULE Spec2Model ----
(***************************************************************************)
(* Message dispatch engine of the review-request application:              *)
(*   - the phone normaliser and the POST /send-sms route of sms-server.js  *)
(*   - the React state of App.tsx (customers, activityLogs, smsQueue,      *)
(*     queueActive, Twilio settings), its handlers and the drain effect    *)
(*   - the direct send of the messenger page (handleSendSms).              *)
(*                                                                         *)
(* React is modelled at the granularity of its commits: a handler's state  *)
(* updates are applied together and followed by the render and by the      *)
(* effects of that render.  An asynchronous function keeps the values of   *)
(* the render that created it (its closure); every await is a step.        *)
(* Strings that are parsed (phones) are sequences of one-character         *)
(* strings; opaque strings (names, sids, tokens) are atoms.                *)
(***************************************************************************)
EXTENDS Integers, Sequences, FiniteSets, TLC

\* ---------------------------------------------------------------- bounds
MaxCustomers == 2   \* customer ids ever created, the stored one included
MaxQueue == 2       \* ids waiting in the backlog
MaxOps == 1         \* funnel clicks and direct sends
MaxFaults == 1      \* provider and transport failures
MaxBulk == 12       \* rows of the largest upload
MaxFeedback == 1    \* feedback entries ever stored

\* ------------------------------------------------------ program constants
BatchSize == 10
E164Min == 10
E164Max == 15
DomesticLen == 10

\* ------------------------------------------------------------ characters
Digits == {"0", "1", "2", "3", "4", "5", "6", "7", "8", "9"}
\* Mutant: the domestic pattern without 6.
DomesticLeadFrom7 == {"7", "8", "9"}

DomesticLead == {"6", "7", "8", "9"}

AllDigits(s) == \A i \in 1..Len(s) : s[i] \in Digits

\* Mutant: every '+' is stripped too.
StripNonDigits(raw) == SelectSeq(raw, LAMBDA ch : ch \in Digits)

\* String.prototype.replace(/[^0-9+]/g, "")
StripNoise(raw) == SelectSeq(raw, LAMBDA ch : ch \in Digits \cup {"+"})

\* Mutant: leading zeros are kept.
KeepLeadingZeros(s) == s

\* String.prototype.replace(/^0+/, "")
RECURSIVE StripLeadingZeros(_)
StripLeadingZeros(s) ==
  IF s # <<>> /\ Head(s) = "0" THEN StripLeadingZeros(Tail(s)) ELSE s

Rejected(why) == [ok |-> FALSE, value |-> <<>>, reason |-> why]
NotCalled == Rejected("not called")
\* Mutant: the value without its '+'.
AcceptedDigits(v) == [ok |-> TRUE, value |-> Tail(v), reason |-> ""]

Accepted(v) == [ok |-> TRUE, value |-> v, reason |-> ""]

normalizePhone(raw) ==
  IF raw = <<>> THEN Rejected("Empty phone")
  ELSE LET cleaned == StripNoise(raw) IN
    IF cleaned # <<>> /\ Head(cleaned) = "+"
    THEN LET digits == Tail(cleaned) IN
         IF AllDigits(digits) /\ Len(digits) >= E164Min /\ Len(digits) <= E164Max
         THEN Accepted(cleaned)
         ELSE Rejected("Invalid E.164 format")
    ELSE LET digitsOnly == StripLeadingZeros(cleaned) IN
         IF Len(digitsOnly) = DomesticLen /\ digitsOnly[1] \in DomesticLead
            /\ AllDigits(digitsOnly)
         THEN Accepted(<<"+", "9", "1">> \o digitsOnly)
         ELSE IF AllDigits(digitsOnly) /\ Len(digitsOnly) >= E164Min
                 /\ Len(digitsOnly) <= E164Max
         THEN Rejected("Ambiguous country code; include +<country_code>")
         ELSE Rejected("Unrecognized phone pattern")

\* Mutant: the helper that takes a number without country code as it is.
normalizePhoneLocalAmbiguousOk(raw) ==
  IF raw = <<>> THEN [ok |-> FALSE, value |-> <<>>, reason |-> ""]
  ELSE LET cleaned == StripNoise(raw) IN
    IF cleaned # <<>> /\ Head(cleaned) = "+"
    THEN [ok |-> AllDigits(Tail(cleaned)) /\ Len(cleaned) - 1 >= E164Min
                 /\ Len(cleaned) - 1 <= E164Max,
          value |-> cleaned, reason |-> ""]
    ELSE LET digitsOnly == StripLeadingZeros(cleaned) IN
         IF AllDigits(digitsOnly) /\ Len(digitsOnly) >= E164Min
            /\ Len(digitsOnly) <= E164Max
         THEN [ok |-> TRUE, value |-> <<"+">> \o digitsOnly, reason |-> ""]
         ELSE [ok |-> FALSE, value |-> <<>>, reason |-> ""]

\* The helper of the dashboard's upload (DashboardPage.handleFileUpload):
\* { ok, value? }, without a reason.
normalizePhoneLocal(raw) ==
  IF raw = <<>> THEN [ok |-> FALSE, value |-> <<>>, reason |-> ""]
  ELSE LET cleaned == StripNoise(raw) IN
    IF cleaned # <<>> /\ Head(cleaned) = "+"
    THEN LET digits == Tail(cleaned) IN
         IF AllDigits(digits) /\ Len(digits) >= E164Min /\ Len(digits) <= E164Max
         THEN [ok |-> TRUE, value |-> cleaned, reason |-> ""]
         ELSE [ok |-> FALSE, value |-> <<>>, reason |-> ""]
    ELSE LET digitsOnly == StripLeadingZeros(cleaned) IN
         IF Len(digitsOnly) = DomesticLen /\ digitsOnly[1] \in DomesticLead
            /\ AllDigits(digitsOnly)
         THEN [ok |-> TRUE, value |-> <<"+", "9", "1">> \o digitsOnly, reason |-> ""]
         ELSE [ok |-> FALSE, value |-> <<>>, reason |-> ""]

\* ------------------------------------------------------------- the server
\* Twilio error codes the provider may answer with; NoCode is an error without
\* a code (err.code undefined).
NoCode == 0
TwilioErrorCodes == {NoCode, 21608}

\* hint chain of the catch block of POST /send-sms
smsHint(twilioCode) ==
  IF twilioCode = 21211
  THEN "Check destination number formatting (must be in E.164 and enabled for SMS)."
  ELSE IF twilioCode = 21608
  THEN "Trial account: destination number not verified."
  ELSE ""

\* The part of POST /send-sms before the provider call: "call" when the
\* request passes, otherwise the 400 response.
Json(status, success, code, error, hint) ==
  [status |-> status, success |-> success, code |-> code, error |-> error,
   hint |-> hint]

\* Mutant: the route without its test of normTo.
sendSmsPrecheckWithoutNormTo(req) ==
  IF req.accountSid = "" \/ req.authToken = "" \/ req.from = <<>>
     \/ req.to = <<>> \/ req.body = ""
  THEN Json(400, FALSE, NoCode, "Missing required fields.", "")
  ELSE IF ~normalizePhone(req.from).ok
  THEN Json(400, FALSE, NoCode, "Invalid 'from' number", "")
  ELSE Json(0, FALSE, NoCode, "call", "")

\* Mutant: the route without its test of the required fields.
sendSmsPrecheckWithoutRequired(req) ==
  IF ~normalizePhone(req.from).ok
  THEN Json(400, FALSE, NoCode, "Invalid 'from' number", "")
  ELSE IF ~normalizePhone(req.to).ok
  THEN Json(400, FALSE, NoCode, "Invalid 'to' number", "")
  ELSE Json(0, FALSE, NoCode, "call", "")

sendSmsPrecheck(req) ==
  IF req.accountSid = "" \/ req.authToken = "" \/ req.from = <<>>
     \/ req.to = <<>> \/ req.body = ""
  THEN Json(400, FALSE, NoCode, "Missing required fields.", "")
  ELSE IF ~normalizePhone(req.from).ok
  THEN Json(400, FALSE, NoCode, "Invalid 'from' number", "")
  ELSE IF ~normalizePhone(req.to).ok
  THEN Json(400, FALSE, NoCode, "Invalid 'to' number", "")
  ELSE Json(0, FALSE, NoCode, "call", "")

IsCall(pre) == pre.error = "call"

\* The response of POST /send-sms once client.messages.create has settled:
\* outcome.ok, or outcome.code is the code of the error the provider threw.
sendSmsAnswer(outcome) ==
  IF outcome.ok
  THEN Json(200, TRUE, NoCode, "", "")
  ELSE Json(500, FALSE, outcome.code, "twilio error", smsHint(outcome.code))

\* --------------------------------------------- the Meta (WhatsApp) routes
\* What the Graph API answered: the HTTP status and the body.  kind is
\* "json" (an object; its error has the code, subcode and details below,
\* NoCode / NoSub / "" where the field is absent), "null" (JSON null: no
\* error object at all) or "throws" (the fetch rejected or resp.json() threw).
NoSub == 0
NoHint == ""
ProviderAnswer(status, kind, code, subcode, details) ==
  [status |-> status, kind |-> kind, code |-> code, subcode |-> subcode,
   details |-> details]

\* const err = data?.error || {}
ErrorOf(answer) ==
  IF answer.kind = "json" THEN answer
  ELSE ProviderAnswer(answer.status, answer.kind, NoCode, NoSub, "")

\* /24\s*hour|customer care window|outside the 24/i.test(details)
Mentions24h(details) ==
  details \in {"24 hour", "customer care window", "outside the 24"}

\* /Unsupported message type|type is invalid/i.test(details)
MentionsType(details) ==
  details \in {"Unsupported message type", "type is invalid"}

\* Each hint is held by its first sentence.
\* hint chain of POST /send-whatsapp: one if / else if chain
textHint(status, err) ==
  IF status = 404 THEN "Phone Number ID not found or token lacks permission."
  ELSE IF err.code = 190
  THEN IF err.subcode = 463 THEN "Access token expired."
       ELSE IF err.subcode = 467 THEN "Invalid access token."
       ELSE "Invalid or expired access token."
  ELSE IF err.code = 100 THEN "Invalid parameter."
  ELSE IF err.code = 131026
  THEN "Recipient is not a valid WhatsApp user for this API or may have blocked messages."
  ELSE IF Mentions24h(err.details)
  THEN "Free-form text can only be sent within 24h of user's last message."
  ELSE IF MentionsType(err.details) THEN "Message payload invalid."
  ELSE NoHint

\* Mutant: the template chain without its test of the subcode.
templateHintWithoutSubcode(status, err) ==
  IF err.code = 100 THEN "Invalid parameter."
  ELSE IF err.code = 190 THEN "Invalid or expired access token."
  ELSE IF status = 404 THEN "Phone Number ID not found or token lacks permission."
  ELSE NoHint

\* hint chain of POST /send-whatsapp-template: three ifs in a row, a later
\* one overwriting the hint of an earlier one
templateHint(status, err) ==
  LET h1 == IF status = 404
            THEN "Phone Number ID not found or token lacks permission."
            ELSE NoHint
      h2 == IF err.code = 190
            THEN IF err.subcode = 463 THEN "Access token expired."
                 ELSE IF err.subcode = 467 THEN "Invalid token."
                 ELSE "Invalid or expired access token."
            ELSE h1
  IN IF err.code = 100 THEN "Invalid parameter." ELSE h2

\* A response of the server.  type is "json" (res.json) or "text" (res.send,
\* res.sendStatus).
Reply(status, type, success, code, subcode, hint) ==
  [status |-> status, type |-> type, success |-> success, code |-> code,
   subcode |-> subcode, hint |-> hint]

IsOk(status) == status >= 200 /\ status <= 299

\* Mutant: the failure response without the provider's subcode.
metaReplyWithoutSubcode(route, answer) ==
  IF answer.kind = "throws" THEN Reply(500, "json", FALSE, NoCode, NoSub, NoHint)
  ELSE IF IsOk(answer.status) THEN Reply(200, "json", TRUE, NoCode, NoSub, NoHint)
  ELSE Reply(answer.status, "json", FALSE, ErrorOf(answer).code, NoSub,
             IF route = "/send-whatsapp" THEN textHint(answer.status, ErrorOf(answer))
             ELSE templateHint(answer.status, ErrorOf(answer)))

\* The two Meta routes from the provider's answer on: try { fetch; json;
\* if (!resp.ok) ... } catch { 500 }
metaReply(route, answer) ==
  IF answer.kind = "throws" THEN Reply(500, "json", FALSE, NoCode, NoSub, NoHint)
  ELSE IF IsOk(answer.status) THEN Reply(200, "json", TRUE, NoCode, NoSub, NoHint)
  ELSE LET err == ErrorOf(answer) IN
       Reply(answer.status, "json", FALSE, err.code, err.subcode,
             IF route = "/send-whatsapp" THEN textHint(answer.status, err)
             ELSE templateHint(answer.status, err))

\* ------------------------------------------------------ the Express stack
\* Mutant: the chain without its branch for 63015.
twilioWaHintWithout63015(code) ==
  IF code = 21606
  THEN "The From WhatsApp number is not a valid WhatsApp-enabled Twilio number."
  ELSE IF code = 63016 \/ code = 63018
  THEN "WhatsApp sender is not approved to message this recipient or message template/permissions missing."
  ELSE NoHint

\* hint chain of the catch block of POST /send-twilio-whatsapp
twilioWaHint(code) ==
  IF code = 21606
  THEN "The From WhatsApp number is not a valid WhatsApp-enabled Twilio number."
  ELSE IF code = 63016 \/ code = 63018
  THEN "WhatsApp sender is not approved to message this recipient or message template/permissions missing."
  ELSE IF code = 63015 THEN "Message failed by WhatsApp"
  ELSE IF code = 21608
  THEN "Trial account restriction: destination number not verified."
  ELSE IF code = 21211
  THEN "Check E.164 formatting and ensure the destination supports WhatsApp."
  ELSE NoHint

\* The two Twilio routes from client.messages.create on: the message, or
\* catch (err) with err.code
twilioReply(route, answer) ==
  IF IsOk(answer.status) THEN Reply(200, "json", TRUE, NoCode, NoSub, NoHint)
  ELSE Reply(500, "json", FALSE, answer.code, NoSub,
             IF route = "/send-sms" THEN smsHint(answer.code)
             ELSE twilioWaHint(answer.code))

\* What the WhatsApp routes hand to their providers, as far as the numbers
\* go.  "whatsapp:" is the channel marker of Twilio.
Marker == <<"whatsapp:">>
NothingSent == [route |-> "", fromWa |-> <<>>, from |-> <<>>, to |-> <<>>]

\* Mutant: the '+' stays.
KeepPlus(value) == value

\* normTo.value.replace(/^\+/, "")
StripPlus(value) == IF value # <<>> /\ Head(value) = "+" THEN Tail(value) ELSE value

\* POST /send-twilio-whatsapp: params of client.messages.create
twilioWaParams(route, fromWa, normFrom, normTo) ==
  [route |-> route, fromWa |-> fromWa, from |-> Marker \o normFrom.value,
   to |-> Marker \o normTo.value]

\* POST /send-whatsapp, /send-whatsapp-template: to of the JSON body
metaPayload(route, normTo) ==
  [route |-> route, fromWa |-> <<>>, from |-> <<>>, to |-> StripPlus(normTo.value)]

\* A request: its route and method, the content type and state of its body
\* (payload: "wellformed", "empty", "malformed", "toolarge"), what the body
\* holds for the route (fields: "complete", "missing", "badTo"; for GET
\* /wa-webhook "complete" is a matching verify token) and what the provider
\* will answer if it is called.
Request(route, method, ctype, payload, fields, answer) ==
  [route |-> route, method |-> method, ctype |-> ctype, payload |-> payload,
   fields |-> fields, answer |-> answer]

TwilioRoutes == {"/send-sms", "/send-twilio-whatsapp"}
MetaRoutes == {"/send-whatsapp", "/send-whatsapp-template"}
WebhookRoutes == {"/twilio-status", "/wa-webhook"}
WhatsAppRoutes == {"/send-twilio-whatsapp"} \cup MetaRoutes

\* express.json() hands the body to the routes only when it is JSON
FieldsSeen(rq) ==
  IF rq.ctype = "json" /\ rq.payload = "wellformed" THEN rq.fields ELSE "missing"

\* POST /twilio-status: res.json({ success: true });
\* POST /wa-webhook: res.sendStatus(200)
webhookReply(route) ==
  IF route = "/twilio-status" THEN Reply(200, "json", TRUE, NoCode, NoSub, NoHint)
  ELSE Reply(200, "text", FALSE, NoCode, NoSub, NoHint)

\* express.json(): err.type === "entity.parse.failed"
ParseFails(rq) == rq.ctype = "json" /\ rq.payload = "malformed"

\* The middleware and the routes in the order app.use / app.post register
\* them: express.json and its error middleware, the routes, the 404
\* fallback, the final error handler.
Respond(rq) ==
  IF ParseFails(rq) THEN Reply(400, "json", FALSE, NoCode, NoSub, NoHint)
  ELSE IF rq.payload = "toolarge" /\ rq.ctype \in {"json", "urlencoded"}
          /\ (rq.ctype = "json" \/ (rq.method = "POST" /\ rq.route = "/twilio-status"))
  THEN Reply(500, "json", FALSE, NoCode, NoSub, NoHint)
  ELSE IF rq.method = "POST" /\ rq.route \in TwilioRoutes \cup MetaRoutes
  THEN IF FieldsSeen(rq) # "complete"
       THEN Reply(400, "json", FALSE, NoCode, NoSub, NoHint)
       ELSE IF rq.route \in TwilioRoutes THEN twilioReply(rq.route, rq.answer)
       ELSE metaReply(rq.route, rq.answer)
  ELSE IF rq.method = "POST" /\ rq.route \in WebhookRoutes
  THEN webhookReply(rq.route)
  ELSE IF rq.method = "GET" /\ rq.route = "/wa-webhook"
  THEN IF rq.fields = "complete"
       THEN Reply(200, "text", FALSE, NoCode, NoSub, NoHint)
       ELSE Reply(403, "text", FALSE, NoCode, NoSub, NoHint)
  ELSE Reply(404, "json", FALSE, NoCode, NoSub, NoHint)

\* The requests and provider answers of the model.
MetaAnswers ==
  {ProviderAnswer(st, "json", c, sc, d) :
     st \in {200, 400, 401, 404}, c \in {NoCode, 100, 190, 131026, 99999},
     sc \in {NoSub, 463, 467}, d \in {"", "24 hour", "type is invalid", "else"}}
  \cup {ProviderAnswer(st, k, NoCode, NoSub, "") :
          st \in {200, 400, 401, 404}, k \in {"null", "throws"}}
TwilioAnswers ==
  {ProviderAnswer(200, "json", NoCode, NoSub, "")}
  \cup {ProviderAnswer(400, "json", c, NoSub, "") :
          c \in {NoCode, 21211, 21606, 21608, 63015, 63016, 63018, 99999}}
Delivered == ProviderAnswer(200, "json", NoCode, NoSub, "")
Sends(route, answer) == Request(route, "POST", "json", "wellformed", "complete", answer)
Requests ==
  {Sends(route, answer) : route \in MetaRoutes, answer \in MetaAnswers}
  \cup {Sends(route, answer) : route \in TwilioRoutes, answer \in TwilioAnswers}
  \cup {Request(route, method, ctype, payload, fields, Delivered) :
          route \in TwilioRoutes \cup MetaRoutes \cup WebhookRoutes \cup {"/nowhere"},
          method \in {"GET", "POST"}, ctype \in {"json", "urlencoded", "text"},
          payload \in {"wellformed", "empty", "malformed", "toolarge"},
          fields \in {"complete", "missing", "badTo"}}
NoRequest == Request("", "", "", "", "", Delivered)
NoReply == Reply(0, "", FALSE, NoCode, NoSub, NoHint)

\* ------------------------------------------------------------- App state
Pending == "Pending"
Sent == "Sent"
Clicked == "Clicked"
Reviewed == "Reviewed"
Failed == "Failed"
CustomerStatus == {Pending, Sent, Clicked, Reviewed, Failed}

VARIABLES
  customers,     \* useState<Customer[]>: sequence of [id, name, phone, status, feedback]
  activityLogs,  \* useState<ActivityLog[]>: newest entry first
  smsQueue,      \* useState<string[]>: the backlog of customer ids
  queueActive,   \* useState(false)
  settings,      \* twilioAccountSid, twilioAuthToken, twilioPhoneNumber, messageTemplate
  runs,          \* the invocations of run() that have not returned yet
  direct,        \* the invocations of SettingsPage.handleSendSms not returned yet
  nextId,        \* source of fresh customer ids (Date.now() + random suffix)
  queueGhost,    \* history: for each backlog entry, the status its customer had when enqueued
  twilioCalls,   \* history: number of client.messages.create calls per <<via, id, to>>
  ops,           \* history: number of user operations so far
  faults,        \* history: number of provider / transport failures so far
  unmounted,     \* the App component has been unmounted (its effects cleaned up)
  raw,           \* the argument of a call of normalizePhone under test
  norm,          \* what that call returned
  rowNorm,       \* what the upload's helper returned for the same argument
  outgoing,      \* what a WhatsApp route hands to its provider for that number
  request,       \* the HTTP request the server is handling
  response,      \* the response it has sent for it
  smsSendStatus  \* useState of the messenger page: the line under the Send button

vars == <<customers, activityLogs, smsQueue, queueActive, settings, runs, direct,
          nextId, queueGhost, twilioCalls, ops, faults, unmounted, raw, norm,
          rowNorm, outgoing, request, response, smsSendStatus>>

\* What the handlers and the drain of a mounted App leave alone.
offstage == <<unmounted, raw, norm, rowNorm, outgoing, request, response>>
aside == <<offstage, smsSendStatus>>

Min(a, b) == IF a < b THEN a ELSE b

\* customers.find((c) => c.id === id): index of the first match, 0 if none
FindIndex(custs, id) ==
  IF \E i \in DOMAIN custs : custs[i].id = id
  THEN CHOOSE i \in DOMAIN custs :
         custs[i].id = id /\ \A j \in 1..(i - 1) : custs[j].id # id
  ELSE 0

HasCustomer(custs, id) == FindIndex(custs, id) # 0
Find(custs, id) == custs[FindIndex(custs, id)]
StatusOf(custs, id) == IF HasCustomer(custs, id) THEN Find(custs, id).status ELSE "none"

\* Mutant: the update that writes nothing.
MapNothing(prev, id, status) == prev

\* prev.map((c) => c.id === id ? { ...c, status } : c)
MapStatus(prev, id, status) ==
  [i \in DOMAIN prev |->
     IF prev[i].id = id THEN [prev[i] EXCEPT !.status = status] ELSE prev[i]]

\* Mutant: the helper that keeps the newest entry only.
logLatestOnly(prev, action, customerName) ==
  <<[action |-> action, customerName |-> customerName]>>

\* Mutant: the helper that logs nothing.
logNothing(prev, action, customerName) == prev

\* logActivity: setActivityLogs((prev) => [newLog, ...prev])
logActivity(prev, action, customerName) ==
  <<[action |-> action, customerName |-> customerName]>> \o prev

\* formatTemplate: the body is empty exactly when the template is
formatTemplate(template, name) == IF template = "" THEN "" ELSE "body"

\* -------------------------------------------------------- the drain effect
\* Mutant: the effect without its first early return.
EffectStartsIgnoringFlag(active, queue) == queue # <<>>

\* The two early returns of the effect: a drain starts only when none of
\* them is taken.
EffectStarts(active, queue) == ~active /\ queue # <<>>

\* Mutant: the whole backlog as one chunk.
TakeAll(queue) == queue

\* smsQueue.slice(0, 10)
TakeChunk(queue) == SubSeq(queue, 1, Min(BatchSize, Len(queue)))

\* Mutant: the chunk stays in the backlog.
DropNothing(prev, chunk) == prev

\* Mutant: one id more than the chunk is dropped.
DropChunkAndOne(prev, chunk) == SubSeq(prev, Len(chunk) + 2, Len(prev))

\* prev.slice(chunk.length)
DropChunk(prev, chunk) == SubSeq(prev, Len(chunk) + 1, Len(prev))

\* run() as created by the effect of a render: it keeps that render's
\* smsQueue (through chunk), customers and settings.  The effect's own
\* setQueueActive(true) causes the next render, whose cleanup sets cancelled,
\* before run() reaches its first timer: cancelled is TRUE from the first
\* await on.
\* ghost and statusAtSend are history: the statuses the chunk's customers had
\* when enqueued, and the status the current customer really had when its
\* send began.
NewRun(queue, ghost, custs, sett) ==
  [chunk |-> TakeChunk(queue), ghost |-> TakeChunk(ghost), idx |-> 1,
   pc |-> "item", customers |-> custs, settings |-> sett, cancelled |-> TRUE,
   resp |-> Json(0, FALSE, NoCode, "", ""), statusAtSend |-> "none"]

\* A commit: the state the handler computed, then the effect of that render.
Commit(custs, queue, ghost, active, sett, rs) ==
  LET start == EffectStarts(active, queue) IN
  /\ customers' = custs
  /\ settings' = sett
  /\ queueActive' = IF start THEN TRUE ELSE active
  /\ smsQueue' = IF start THEN DropChunk(queue, TakeChunk(queue)) ELSE queue
  /\ queueGhost' = IF start THEN DropChunk(ghost, TakeChunk(queue)) ELSE ghost
  /\ runs' = IF start THEN Append(rs, NewRun(queue, ghost, custs, sett)) ELSE rs

\* Mutant: the new ids go in front of those that wait.
enqueueInFront(prev, ids) == ids \o prev

\* enqueueSmsCustomers: setSmsQueue((prev) => [...prev, ...ids])
enqueueSmsCustomers(prev, ids) == prev \o ids

\* ------------------------------------------------------------ user inputs
PhoneE164 == <<"+", "1", "4", "1", "5", "5", "5", "5", "0", "1", "0", "0">>
PhoneAbc == <<"a", "b", "c">>
PhoneShort == <<"1", "2", "3", "4", "5">>
Phones == {PhoneE164, PhoneShort, PhoneAbc}

\* AddCustomerModal.handleSubmit: /^\+?[1-9]\d{1,14}$/.test(phone)
ModalAccepts(phone) ==
  LET rest == IF phone # <<>> /\ Head(phone) = "+" THEN Tail(phone) ELSE phone IN
  /\ Len(rest) >= 2 /\ Len(rest) <= 15
  /\ rest[1] \in Digits \ {"0"}
  /\ AllDigits(rest)

NoSettings ==
  [twilioAccountSid |-> "", twilioAuthToken |-> "", twilioPhoneNumber |-> <<>>,
   messageTemplate |-> "template"]
GoodSettings ==
  [twilioAccountSid |-> "AC1", twilioAuthToken |-> "token",
   twilioPhoneNumber |-> PhoneE164, messageTemplate |-> "template"]

\* What localStorage may hold when the application starts.
StoredCustomer(phone, status) ==
  [id |-> 1, name |-> "Zoe", phone |-> phone, status |-> status, feedback |-> <<>>]
StoredLists ==
  {<<>>, <<StoredCustomer(PhoneAbc, Pending)>>}
    \cup {<<StoredCustomer(PhoneE164, st)>> : st \in CustomerStatus}

\* Numbers as a request may carry them: an optional prefix, a run of digits
\* and, inside the run, nothing, a dash or a '+'.
MaxDigits == 16
InnerAt == 4
Run(lead, n) == IF n = 0 THEN <<>> ELSE <<lead>> \o [k \in 1..(n - 1) |-> "5"]
InsertAt(s, pos, x) ==
  SubSeq(s, 1, Min(pos, Len(s))) \o x \o SubSeq(s, Min(pos, Len(s)) + 1, Len(s))
Prefixes == {<<>>, <<"+">>, <<" ", "+">>, <<"0", "0">>}
Leads == {"0", "1", "6", "9"}
Inners == {<<>>, <<"-">>, <<"+">>}
RawInputs ==
  {prefix \o InsertAt(Run(lead, n), InnerAt, inner) :
     prefix \in Prefixes, lead \in Leads, n \in 0..MaxDigits, inner \in Inners}

\* Numbers a request to /send-twilio-whatsapp may carry as fromWa.
Senders ==
  {PhoneE164, <<"w", "h", "a", "t", "s", "a", "p", "p", ":">> \o PhoneE164,
   <<"0", "9", "8", "7", "6", "5", "4", "3", "2", "1", "0">>}

\* Settings with one input missing.
NoSender == [GoodSettings EXCEPT !.twilioPhoneNumber = <<>>]
NoBody == [GoodSettings EXCEPT !.messageTemplate = ""]
InputSettings == {GoodSettings, NoSender, NoBody}
InputLists ==
  {<<StoredCustomer(PhoneE164, Pending)>>, <<StoredCustomer(<<>>, Pending)>>}

\* The lines setSmsSendStatus writes, by their parts.
NoStatus == [kind |-> "", success |-> 0, total |-> 0, failed |-> 0, first |-> ""]

InitWith(lists) ==
  /\ customers \in lists
  /\ activityLogs = <<>>
  /\ smsQueue = <<>>
  /\ queueActive = FALSE
  /\ settings = NoSettings
  /\ runs = <<>>
  /\ direct = <<>>
  /\ nextId = 2
  /\ queueGhost = <<>>
  /\ twilioCalls = <<>>
  /\ ops = 0
  /\ faults = 0
  /\ unmounted = FALSE
  /\ raw = <<>>
  /\ norm = NotCalled
  /\ rowNorm = NotCalled
  /\ outgoing = NothingSent
  /\ request = NoRequest
  /\ response = NoReply
  /\ smsSendStatus = NoStatus

Init == InitWith(StoredLists)

\* ---------------------------------------------------------- user handlers
UserOp == ops < MaxOps /\ ops' = ops + 1
CanEnqueue(n) == Len(smsQueue) + n <= MaxQueue

\* SettingsPage.handleSave; saving the values already stored changes nothing
handleSave(sett) ==
  /\ sett # settings
  /\ Commit(customers, smsQueue, queueGhost, queueActive, sett, runs)
  /\ UNCHANGED <<aside, activityLogs, direct, nextId, twilioCalls, ops, faults>>

handleAddCustomer(name, phone) ==
  LET newCustomer == [id |-> nextId, name |-> name, phone |-> phone,
                      status |-> Pending, feedback |-> <<>>]
  IN
  /\ nextId <= MaxCustomers /\ CanEnqueue(1)
  /\ activityLogs' = logActivity(activityLogs, "Added to customer list", name)
  /\ nextId' = nextId + 1
  /\ Commit(<<newCustomer>> \o customers,
            enqueueSmsCustomers(smsQueue, <<newCustomer.id>>),
            queueGhost \o <<Pending>>, queueActive, settings, runs)
  /\ UNCHANGED <<aside, direct, twilioCalls, ops, faults>>

\* CustomerTable: the Send / Resend SMS button is disabled for Reviewed rows
SendButtonEnabled(custs, id) == StatusOf(custs, id) # Reviewed

handleSendMessage(customerId) ==
  /\ CanEnqueue(1)
  /\ HasCustomer(customers, customerId)
  /\ Commit(customers, enqueueSmsCustomers(smsQueue, <<customerId>>),
            queueGhost \o <<StatusOf(customers, customerId)>>, queueActive,
            settings, runs)
  /\ UNCHANGED <<aside, activityLogs, direct, nextId, twilioCalls, ops, faults>>

handleDeleteCustomer(customerId) ==
  /\ HasCustomer(customers, customerId)
  /\ activityLogs' =
       logActivity(activityLogs, "Deleted customer", Find(customers, customerId).name)
  /\ Commit(SelectSeq(customers, LAMBDA c : c.id # customerId), smsQueue,
            queueGhost, queueActive, settings, runs)
  /\ UNCHANGED <<aside, direct, nextId, twilioCalls, ops, faults>>

handleClearCustomers ==
  /\ customers # <<>>
  /\ Commit(<<>>, smsQueue, queueGhost, queueActive, settings, runs)
  /\ UNCHANGED <<aside, activityLogs, direct, nextId, twilioCalls, ops, faults>>

handleOpenFunnel(customerId) ==
  /\ UserOp
  /\ HasCustomer(customers, customerId)
  /\ activityLogs' = logActivity(activityLogs, "Clicked review link (simulation)",
                                 Find(customers, customerId).name)
  /\ Commit(MapStatus(customers, customerId, Clicked), smsQueue, queueGhost,
            queueActive, settings, runs)
  /\ UNCHANGED <<aside, direct, nextId, twilioCalls, faults>>

\* ---------------------------------------------------------------- feedback
\* ids that are not those of added customers: the synthetic bucket, and the
\* empty id the feedback page passes when it has no customer
BucketId == 0
EmptyId == -1
PhoneNA == <<"N", "/", "A">>

\* const norm = (s) => s.replace(/\D/g, "")
DigitsOf(s) == SelectSeq(s, LAMBDA ch : ch \in Digits)

\* Mutant: the new entry goes in front.
putFirstAt(arr, index, newEntry) ==
  [arr EXCEPT ![index].feedback = <<newEntry>> \o @]

\* Mutant: the last customer with the phone, not the first.
FindLastIndexByPhone(custs, phone) ==
  IF \E i \in DOMAIN custs : DigitsOf(custs[i].phone) = DigitsOf(phone)
  THEN CHOOSE i \in DOMAIN custs :
         /\ DigitsOf(custs[i].phone) = DigitsOf(phone)
         /\ \A j \in (i + 1)..Len(custs) : DigitsOf(custs[j].phone) # DigitsOf(phone)
  ELSE 0

\* prev.findIndex((c) => norm(c.phone) === norm(phone)), 0 if none
FindIndexByPhone(custs, phone) ==
  IF \E i \in DOMAIN custs : DigitsOf(custs[i].phone) = DigitsOf(phone)
  THEN CHOOSE i \in DOMAIN custs :
         /\ DigitsOf(custs[i].phone) = DigitsOf(phone)
         /\ \A j \in 1..(i - 1) : DigitsOf(custs[j].phone) # DigitsOf(phone)
  ELSE 0

\* arr.map((c, i) => i === index ? { ...c, feedback: [...c.feedback, newEntry] } : c)
appendAt(arr, index, newEntry) ==
  [arr EXCEPT ![index].feedback = Append(@, newEntry)]

RECURSIVE CountFeedback(_)
CountFeedback(custs) ==
  IF custs = <<>> THEN 0 ELSE Len(Head(custs).feedback) + CountFeedback(Tail(custs))

\* The functional update of addFeedback: by id, then by phone, then the bucket.
WithFeedback(prev, customerId, phone, newEntry) ==
  IF FindIndex(prev, customerId) # 0
  THEN appendAt(prev, FindIndex(prev, customerId), newEntry)
  ELSE IF phone # <<>> /\ FindIndexByPhone(prev, phone) # 0
  THEN appendAt(prev, FindIndexByPhone(prev, phone), newEntry)
  ELSE IF FindIndex(prev, BucketId) # 0
  THEN appendAt(prev, FindIndex(prev, BucketId), newEntry)
  ELSE <<[id |-> BucketId, name |-> "Public Feedback", phone |-> PhoneNA,
          status |-> Reviewed, feedback |-> <<newEntry>>]>> \o prev

addFeedback(customerId, text, sentiment, phone) ==
  /\ Commit(WithFeedback(customers, customerId, phone,
                         [text |-> text, sentiment |-> sentiment]),
            smsQueue, queueGhost, queueActive, settings, runs)
  /\ UNCHANGED <<aside, activityLogs, direct, nextId, twilioCalls, ops, faults>>

\* FeedbackPage.handleQuickSubmit: a rating was chosen; the feedback goes to
\* the customer of the page, if there is one.
handleQuickSubmit(customer, sentiment) ==
  /\ CountFeedback(customers) < MaxFeedback
  /\ addFeedback(customer.id, "rating", sentiment, customer.phone)

\* the feedback page opened without a customer
NoCustomer == [id |-> EmptyId, phone |-> <<>>]

\* ------------------------------------------------------------- the drain
\* Mutant: the for loop without its status test.
EligibleAnyStatus(custs, id) == HasCustomer(custs, id)

\* The guard of the for loop: the customer of the run's render, if it is
\* there and Pending.
Eligible(custs, id) == HasCustomer(custs, id) /\ Find(custs, id).status = Pending

\* The first test of sendSmsToCustomer.
MissingCredentials(sett, cust) ==
  \/ sett.twilioAccountSid = ""
  \/ sett.twilioAuthToken = ""
  \/ sett.twilioPhoneNumber = <<>>
  \/ cust.phone = <<>>

\* The JSON body of the fetch of sendSmsToCustomer.
SmsRequest(sett, cust) ==
  [accountSid |-> sett.twilioAccountSid, authToken |-> sett.twilioAuthToken,
   from |-> sett.twilioPhoneNumber, to |-> cust.phone,
   body |-> formatTemplate(sett.messageTemplate, cust.name)]

\* `SMS failed (${data.code || "error"})`
SmsFailedAction(code) ==
  IF code = 21211 THEN "SMS failed (21211)"
  ELSE IF code = 21608 THEN "SMS failed (21608)"
  ELSE "SMS failed (error)"

TwilioOutcomes ==
  {[ok |-> TRUE, code |-> NoCode]} \cup {[ok |-> FALSE, code |-> c] : c \in TwilioErrorCodes}

Calls(key) == IF key \in DOMAIN twilioCalls THEN twilioCalls[key] ELSE 0
CountCall(key) ==
  [k \in DOMAIN twilioCalls \cup {key} |-> Calls(k) + (IF k = key THEN 1 ELSE 0)]

\* The end of one pass of the for loop: the next id, or the wait after the
\* chunk.
AfterItem(r) ==
  [r EXCEPT !.idx = r.idx + 1,
            !.pc = IF r.idx + 1 > Len(r.chunk) THEN "batchWait" ELSE "item"]

AtItem(i) == i \in DOMAIN runs /\ runs[i].pc = "item" /\ runs[i].idx <= Len(runs[i].chunk)
Current(r) == r.chunk[r.idx]
Target(r) == Find(r.customers, Current(r))
RemoveAt(seq, i) == SubSeq(seq, 1, i - 1) \o SubSeq(seq, i + 1, Len(seq))

\* Mutant: the loop without the pause after a send.
ApplyOutcomeWithoutPause(i, status, action) ==
  /\ activityLogs' = logActivity(activityLogs, action, Target(runs[i]).name)
  /\ Commit(MapStatus(customers, Current(runs[i]), status), smsQueue, queueGhost,
            queueActive, settings, [runs EXCEPT ![i] = AfterItem(runs[i])])

\* Mutant: a failed send ends the run.
ApplyOutcomeOrAbort(i, status, action) ==
  /\ activityLogs' = logActivity(activityLogs, action, Target(runs[i]).name)
  /\ Commit(MapStatus(customers, Current(runs[i]), status), smsQueue, queueGhost,
            IF status = Failed THEN FALSE ELSE queueActive, settings,
            IF status = Failed THEN RemoveAt(runs, i)
            ELSE [runs EXCEPT ![i].pc = "pause"])

\* The outcome of sendSmsToCustomer: the status, by a functional update of
\* the current list, and one log entry with the name the run knows.
ApplyOutcome(i, status, action) ==
  /\ activityLogs' = logActivity(activityLogs, action, Target(runs[i]).name)
  /\ Commit(MapStatus(customers, Current(runs[i]), status), smsQueue, queueGhost,
            queueActive, settings, [runs EXCEPT ![i].pc = "pause"])

\* if (!cust) continue; if (cust.status !== Pending) continue;
DrainSkip(i) ==
  /\ AtItem(i)
  /\ ~Eligible(runs[i].customers, Current(runs[i]))
  /\ runs' = [runs EXCEPT ![i] = AfterItem(runs[i])]
  /\ UNCHANGED <<aside, customers, activityLogs, smsQueue, queueActive, settings, direct,
                 nextId, queueGhost, twilioCalls, ops, faults>>

\* sendSmsToCustomer, missing credentials or phone: no request is made
DrainSendMissing(i) ==
  /\ AtItem(i)
  /\ Eligible(runs[i].customers, Current(runs[i]))
  /\ MissingCredentials(runs[i].settings, Target(runs[i]))
  /\ ApplyOutcome(i, Failed, "SMS failed (missing credentials)")
  /\ UNCHANGED <<aside, direct, nextId, twilioCalls, ops, faults>>

\* sendSmsToCustomer: await fetch(`${API_BASE}/send-sms`)
DrainSendFetch(i) ==
  /\ AtItem(i)
  /\ Eligible(runs[i].customers, Current(runs[i]))
  /\ ~MissingCredentials(runs[i].settings, Target(runs[i]))
  /\ runs' = [runs EXCEPT ![i].pc = "fetch",
                          ![i].statusAtSend = StatusOf(customers, Current(runs[i]))]
  /\ UNCHANGED <<aside, customers, activityLogs, smsQueue, queueActive, settings, direct,
                 nextId, queueGhost, twilioCalls, ops, faults>>

\* POST /send-sms answers 400 without calling Twilio
ServerRejectsSms(i) ==
  /\ i \in DOMAIN runs /\ runs[i].pc = "fetch"
  /\ LET pre == sendSmsPrecheck(SmsRequest(runs[i].settings, Target(runs[i]))) IN
       /\ ~IsCall(pre)
       /\ runs' = [runs EXCEPT ![i].pc = "resp", ![i].resp = pre]
  /\ UNCHANGED <<aside, customers, activityLogs, smsQueue, queueActive, settings, direct,
                 nextId, queueGhost, twilioCalls, ops, faults>>

\* POST /send-sms calls client.messages.create and answers with its outcome
ServerCallsTwilio(i, outcome) ==
  /\ i \in DOMAIN runs /\ runs[i].pc = "fetch"
  /\ IsCall(sendSmsPrecheck(SmsRequest(runs[i].settings, Target(runs[i]))))
  /\ IF outcome.ok THEN faults' = faults
     ELSE faults < MaxFaults /\ faults' = faults + 1
  /\ twilioCalls' = CountCall(<<"drain", Current(runs[i]), Target(runs[i]).phone>>)
  /\ runs' = [runs EXCEPT ![i].pc = "resp",
                          ![i].resp = sendSmsAnswer(outcome)]
  /\ UNCHANGED <<aside, customers, activityLogs, smsQueue, queueActive, settings, direct,
                 nextId, queueGhost, ops>>

\* const data = await res.json(); if (data.success) ... else ...
DrainFetchResolve(i) ==
  /\ i \in DOMAIN runs /\ runs[i].pc = "resp"
  /\ IF runs[i].resp.success
     THEN ApplyOutcome(i, Sent, "Sent SMS")
     ELSE ApplyOutcome(i, Failed, SmsFailedAction(runs[i].resp.code))
  /\ UNCHANGED <<aside, direct, nextId, twilioCalls, ops, faults>>

\* catch (e): the fetch rejected or the response was not JSON
DrainFetchReject(i) ==
  /\ i \in DOMAIN runs /\ runs[i].pc \in {"fetch", "resp"}
  /\ faults < MaxFaults /\ faults' = faults + 1
  /\ ApplyOutcome(i, Failed, "SMS network error")
  /\ UNCHANGED <<aside, direct, nextId, twilioCalls, ops>>

\* await new Promise((r) => setTimeout(r, 150))
DrainPauseElapsed(i) ==
  /\ i \in DOMAIN runs /\ runs[i].pc = "pause"
  /\ runs' = [runs EXCEPT ![i] = AfterItem(runs[i])]
  /\ UNCHANGED <<aside, customers, activityLogs, smsQueue, queueActive, settings, direct,
                 nextId, queueGhost, twilioCalls, ops, faults>>

\* await new Promise((r) => setTimeout(r, 500)), then the test of the while:
\* a cancelled run leaves through finally { setQueueActive(false) }; one that
\* is not cancelled takes the chunk of its own render again.
DrainBatchWaitElapsed(i) ==
  /\ i \in DOMAIN runs /\ runs[i].pc = "batchWait"
  /\ IF runs[i].cancelled
     THEN Commit(customers, smsQueue, queueGhost, FALSE, settings, RemoveAt(runs, i))
     ELSE Commit(customers, DropChunk(smsQueue, runs[i].chunk),
                 DropChunk(queueGhost, runs[i].chunk), queueActive, settings,
                 [runs EXCEPT ![i].idx = 1, ![i].pc = "item"])
  /\ UNCHANGED <<aside, activityLogs, direct, nextId, twilioCalls, ops, faults>>

\* ------------------------------------------------------------- bulk upload
BulkNames ==
  <<"c01", "c02", "c03", "c04", "c05", "c06", "c07", "c08", "c09", "c10",
    "c11", "c12", "c13", "c14", "c15", "c16", "c17", "c18">>

\* The rows an upload hands to onBulkAddCustomers: the upload keeps only rows
\* whose phone its normaliser accepted.
RECURSIVE BulkRows(_, _)
BulkRows(first, n) ==
  IF n = 0 THEN <<>>
  ELSE Append(BulkRows(first, n - 1),
              [name |-> BulkNames[first + n - 1], phone |-> PhoneE164])
BulkData(n) == BulkRows(nextId, n)
BulkSizes == {MaxBulk - 1, MaxBulk}
SmallBulk == 2

RECURSIVE LogEach(_, _, _)
\* addedCustomers.forEach((c) => logActivity("Bulk uploaded", c.name))
LogEach(prev, action, added) ==
  IF added = <<>> THEN prev
  ELSE LogEach(logActivity(prev, action, Head(added).name), action, Tail(added))

RECURSIVE NewCustomers(_, _)
\* customersData.map((d) => ({ id: fresh, ...d, status: Pending }))
NewCustomers(customersData, first) ==
  IF customersData = <<>> THEN <<>>
  ELSE <<[id |-> first, name |-> Head(customersData).name,
          phone |-> Head(customersData).phone, status |-> Pending,
          feedback |-> <<>>]>>
       \o NewCustomers(Tail(customersData), first + 1)

RECURSIVE IdsOf(_)
IdsOf(custs) == IF custs = <<>> THEN <<>> ELSE <<Head(custs).id>> \o IdsOf(Tail(custs))

RECURSIVE Repeat(_, _)
Repeat(x, n) == IF n = 0 THEN <<>> ELSE <<x>> \o Repeat(x, n - 1)

handleBulkAddCustomers(customersData) ==
  LET n == Len(customersData)
      addedCustomers == NewCustomers(customersData, nextId)
  IN
  /\ n > 0
  /\ activityLogs' = LogEach(activityLogs, "Bulk uploaded", addedCustomers)
  /\ nextId' = nextId + n
  /\ Commit(addedCustomers \o customers,
            enqueueSmsCustomers(smsQueue, IdsOf(addedCustomers)),
            queueGhost \o Repeat(Pending, n), queueActive, settings, runs)
  /\ UNCHANGED <<aside, direct, twilioCalls, ops, faults>>

\* ------------------------------------------- direct send (messenger page)
\* markCustomerSent / markCustomerFailed: the status by a functional update;
\* the log entry only if the customers of the render that made the callback
\* hold the id.
markCustomer(customerId, status, action, closure, rest) ==
  /\ activityLogs' =
       IF HasCustomer(closure, customerId)
       THEN logActivity(activityLogs, action, Find(closure, customerId).name)
       ELSE activityLogs
  /\ Commit(MapStatus(customers, customerId, status), smsQueue, queueGhost,
            queueActive, settings, runs)
  /\ direct' = rest

markCustomerSent(customerId, closure, rest) ==
  markCustomer(customerId, Sent, "Sent SMS (settings)", closure, rest)

markCustomerFailed(customerId, closure, rest) ==
  markCustomer(customerId, Failed, "SMS failed (reason)", closure, rest)

Recipient(d) == d.recipients[d.idx]

\* `Sending ${i + 1}/${total} ...`
Sending(i, total) ==
  [kind |-> "sending", success |-> i, total |-> total, failed |-> 0, first |-> ""]

\* The summary after the loop: `All ${success} SMS sent successfully.`,
\* `Sent ${success}/${total}. ${failures.length} failed because numbers are
\* not verified for a Twilio trial. ...` or `Sent ${success}/${total}.
\* Failed: ${failures.length}. First error: ${failures[0].name} - ...`
Summary(success, total, failures) ==
  IF failures = <<>>
  THEN [kind |-> "all", success |-> success, total |-> total, failed |-> 0, first |-> ""]
  ELSE IF \A k \in DOMAIN failures : failures[k].code = 21608
  THEN [kind |-> "trial", success |-> success, total |-> total,
        failed |-> Len(failures), first |-> ""]
  ELSE [kind |-> "first", success |-> success, total |-> total,
        failed |-> Len(failures), first |-> failures[1].error]

\* handleSendSms of the messenger page, up to its first fetch: the Twilio
\* fields of the form are filled in and at least one recipient is selected.
\* success and failures are the tally of the loop.
handleSendSms(recipients, local) ==
  /\ UserOp
  /\ recipients # <<>>
  /\ local.twilioAccountSid # "" /\ local.twilioAuthToken # ""
  /\ local.twilioPhoneNumber # <<>> /\ local.messageTemplate # ""
  /\ direct' = Append(direct, [recipients |-> recipients, idx |-> 1, pc |-> "fetch",
                              local |-> local, customers |-> customers,
                              resp |-> Json(0, FALSE, NoCode, "", ""),
                              success |-> 0, failures |-> <<>>])
  /\ smsSendStatus' = Sending(1, Len(recipients))
  /\ UNCHANGED <<offstage, customers, activityLogs, smsQueue, queueActive, settings, runs,
                 nextId, queueGhost, twilioCalls, faults>>

DirectServerRejects(j) ==
  /\ j \in DOMAIN direct /\ direct[j].pc = "fetch"
  /\ LET pre == sendSmsPrecheck(SmsRequest(direct[j].local, Recipient(direct[j]))) IN
       /\ ~IsCall(pre)
       /\ direct' = [direct EXCEPT ![j].pc = "resp", ![j].resp = pre]
  /\ UNCHANGED <<aside, customers, activityLogs, smsQueue, queueActive, settings, runs,
                 nextId, queueGhost, twilioCalls, ops, faults>>

DirectServerCallsTwilio(j, outcome) ==
  /\ j \in DOMAIN direct /\ direct[j].pc = "fetch"
  /\ IsCall(sendSmsPrecheck(SmsRequest(direct[j].local, Recipient(direct[j]))))
  /\ IF outcome.ok THEN faults' = faults
     ELSE faults < MaxFaults /\ faults' = faults + 1
  /\ twilioCalls' =
       CountCall(<<"direct", Recipient(direct[j]).id, Recipient(direct[j]).phone>>)
  /\ direct' = [direct EXCEPT ![j].pc = "resp", ![j].resp = sendSmsAnswer(outcome)]
  /\ UNCHANGED <<aside, customers, activityLogs, smsQueue, queueActive, settings, runs,
                 nextId, queueGhost, ops>>

\* failures.push({ name, phone, error, code })
Failure(cust, error, code) == [name |-> cust.name, error |-> error, code |-> code]

\* errMsg of a response that is not a success: data?.error when !res.ok,
\* `${data.error} — ${data.hint}` or data.error otherwise
errMsg(resp) ==
  IF resp.status # 200 \/ resp.hint = "" THEN resp.error ELSE resp.error \o resp.hint

\* guidance of the catch block, for a fetch that rejected
Guidance == "Failed to reach SMS API."

\* if (!res.ok) failed; else if (data && data.success) sent; else failed
DirectResolve(j) ==
  /\ j \in DOMAIN direct /\ direct[j].pc = "resp"
  /\ LET d == direct[j]
         paused == [direct EXCEPT ![j].pc = "pause"] IN
       IF d.resp.status = 200 /\ d.resp.success
       THEN markCustomerSent(Recipient(d).id, d.customers,
                             [paused EXCEPT ![j].success = d.success + 1])
       ELSE markCustomerFailed(Recipient(d).id, d.customers,
              [paused EXCEPT ![j].failures =
                 Append(d.failures, Failure(Recipient(d), errMsg(d.resp), d.resp.code))])
  /\ UNCHANGED <<aside, nextId, twilioCalls, ops, faults>>

\* catch (err): the fetch rejected; the failure has no code
DirectReject(j) ==
  /\ j \in DOMAIN direct /\ direct[j].pc = "fetch"
  /\ faults < MaxFaults /\ faults' = faults + 1
  /\ markCustomerFailed(Recipient(direct[j]).id, direct[j].customers,
       [direct EXCEPT ![j].pc = "pause",
                      ![j].failures = Append(direct[j].failures,
                                             Failure(Recipient(direct[j]), Guidance, NoCode))])
  /\ UNCHANGED <<aside, nextId, twilioCalls, ops>>

LastRecipient(d) == d.idx + 1 > Len(d.recipients)

\* await new Promise((r) => setTimeout(r, 150)); the next recipient, with
\* its Sending line, or the end of the loop and the summary
DirectPauseElapsed(j) ==
  /\ j \in DOMAIN direct /\ direct[j].pc = "pause"
  /\ direct' = IF LastRecipient(direct[j])
               THEN RemoveAt(direct, j)
               ELSE [direct EXCEPT ![j].idx = direct[j].idx + 1, ![j].pc = "fetch"]
  /\ smsSendStatus' =
       IF LastRecipient(direct[j])
       THEN Summary(direct[j].success, Len(direct[j].recipients), direct[j].failures)
       ELSE Sending(direct[j].idx + 1, Len(direct[j].recipients))
  /\ UNCHANGED <<offstage, customers, activityLogs, smsQueue, queueActive, settings, runs,
                 nextId, queueGhost, twilioCalls, ops, faults>>

\* ---------------------------------------------------------------- teardown
\* The application is unmounted: the cleanup of the effect sets cancelled (it
\* is set already from the first await on); nothing stops a run().  A run()
\* goes from a timer to its next await without a pause, so the teardown
\* finds it at an await.
Unmount ==
  /\ ~unmounted
  /\ \A i \in DOMAIN runs : runs[i].pc # "item"
  /\ unmounted' = TRUE
  /\ runs' = [i \in DOMAIN runs |-> [runs[i] EXCEPT !.cancelled = TRUE]]
  /\ UNCHANGED <<smsSendStatus, raw, norm, rowNorm, outgoing, request, response, customers, activityLogs, smsQueue, queueActive, settings,
                 direct, nextId, queueGhost, twilioCalls, ops, faults>>

\* sendSmsToCustomer returns in a run() that outlived the application: its
\* setCustomers and logActivity change nothing.
OrphanOutcome(i) ==
  /\ i \in DOMAIN runs
  /\ \/ /\ AtItem(i)
        /\ Eligible(runs[i].customers, Current(runs[i]))
        /\ MissingCredentials(runs[i].settings, Target(runs[i]))
     \/ runs[i].pc = "resp"
  /\ runs' = [runs EXCEPT ![i].pc = "pause"]
  /\ UNCHANGED <<aside, customers, activityLogs, smsQueue, queueActive, settings, direct,
                 nextId, queueGhost, twilioCalls, ops, faults>>

\* catch (e) in a run() that outlived the application
OrphanReject(i) ==
  /\ i \in DOMAIN runs /\ runs[i].pc \in {"fetch", "resp"}
  /\ faults < MaxFaults /\ faults' = faults + 1
  /\ runs' = [runs EXCEPT ![i].pc = "pause"]
  /\ UNCHANGED <<aside, customers, activityLogs, smsQueue, queueActive, settings, direct,
                 nextId, queueGhost, twilioCalls, ops>>

\* The 500 ms timer, then while (!cancelled ...) ends the loop; the
\* setQueueActive(false) of finally changes nothing.
OrphanReturns(i) ==
  /\ i \in DOMAIN runs /\ runs[i].pc = "batchWait"
  /\ runs' = RemoveAt(runs, i)
  /\ UNCHANGED <<aside, customers, activityLogs, smsQueue, queueActive, settings, direct,
                 nextId, queueGhost, twilioCalls, ops, faults>>

\* run() after the application is gone: the steps that touch no React state
\* are the same.
Orphan ==
  \E i \in DOMAIN runs :
    \/ DrainSkip(i)
    \/ DrainSendFetch(i)
    \/ ServerRejectsSms(i)
    \/ \E outcome \in TwilioOutcomes : ServerCallsTwilio(i, outcome)
    \/ DrainPauseElapsed(i)
    \/ OrphanOutcome(i)
    \/ OrphanReject(i)
    \/ OrphanReturns(i)

DirectSend ==
  \E j \in DOMAIN direct :
    \/ DirectServerRejects(j)
    \/ \E outcome \in TwilioOutcomes : DirectServerCallsTwilio(j, outcome)
    \/ DirectResolve(j)
    \/ DirectReject(j)
    \/ DirectPauseElapsed(j)

Drain ==
  \E i \in DOMAIN runs :
    \/ DrainSkip(i)
    \/ DrainSendMissing(i)
    \/ DrainSendFetch(i)
    \/ ServerRejectsSms(i)
    \/ \E outcome \in TwilioOutcomes : ServerCallsTwilio(i, outcome)
    \/ DrainFetchResolve(i)
    \/ DrainFetchReject(i)
    \/ DrainPauseElapsed(i)
    \/ DrainBatchWaitElapsed(i)

\* Deletions under a drain.  run() goes from its start, and from each of its
\* timers, to its next await without a pause: the user acts while every
\* run() is at an await.
AtAwait == \A i \in DOMAIN runs : runs[i].pc # "item"

DeleteUser ==
  \/ AtAwait /\ handleSave(GoodSettings)
  \/ AtAwait /\ handleAddCustomer("Ann", PhoneE164)
  \/ AtAwait /\ nextId <= MaxCustomers + 1
       /\ handleBulkAddCustomers(BulkData(SmallBulk))
  \/ AtAwait /\ \E id \in 1..(nextId - 1) : handleDeleteCustomer(id)
  \/ AtAwait /\ handleClearCustomers

NextDelete == DeleteUser \/ Drain

InitDelete == InitWith({<<>>})

SpecDelete == InitDelete /\ [][NextDelete]_vars

\* ------------------------------------------------------- specifications
\* The dispatch queue: customers are added and re-sent while the drain runs.
QueueUser ==
  \/ handleSave(GoodSettings)
  \/ \E phone \in Phones : ModalAccepts(phone) /\ handleAddCustomer("Ann", phone)
  \/ \E id \in 1..(nextId - 1) :
       SendButtonEnabled(customers, id) /\ handleSendMessage(id)

Next == QueueUser \/ Drain

Spec == Init /\ [][Next]_vars

\* The status machine: funnel clicks and direct sends meet the drain.
FunnelUser ==
  \/ handleSave(GoodSettings)
  \/ handleAddCustomer("Ann", PhoneE164)
  \/ \E id \in 1..(nextId - 1) : handleOpenFunnel(id)
  \/ \E k \in DOMAIN customers : handleSendSms(<<customers[k]>>, GoodSettings)
  \/ \E id \in 1..(nextId - 1) : handleDeleteCustomer(id)
  \/ handleClearCustomers

NextFunnel == FunnelUser \/ Drain \/ DirectSend

SpecFunnel == Init /\ [][NextFunnel]_vars

\* The messenger page: a send to the selected recipients, one or all.
SummaryUser ==
  \/ \E phone \in Phones : ModalAccepts(phone) /\ handleAddCustomer("Ann", phone)
  \/ \E k \in DOMAIN customers : handleSendSms(<<customers[k]>>, GoodSettings)
  \/ customers # <<>> /\ handleSendSms(customers, GoodSettings)

NextSummary == SummaryUser \/ Drain \/ DirectSend

SpecSummary == Init /\ [][NextSummary]_vars

\* Batching: uploads of several customers at once.
BatchUser ==
  \/ handleSave(GoodSettings)
  \/ handleAddCustomer("Ann", PhoneE164)
  \/ \E n \in BulkSizes :
       nextId + n - 1 <= MaxBulk + 2 /\ handleBulkAddCustomers(BulkData(n))

NextBatch == BatchUser \/ Drain

SpecBatch == Init /\ [][NextBatch]_vars

\* The backlog: an upload larger than a chunk, and rows sent again while the
\* drain is under way.
\* the first rows of the upload
ResentRows == {2, 3}

BacklogUser ==
  \/ handleSave(GoodSettings)
  \/ \E n \in BulkSizes :
       nextId + n - 1 <= MaxBulk + 2 /\ handleBulkAddCustomers(BulkData(n))
  \/ \E id \in ResentRows :
       runs # <<>> /\ SendButtonEnabled(customers, id) /\ handleSendMessage(id)

NextBacklog == BacklogUser \/ Drain

InitBacklog == InitWith({<<>>})

SpecBacklog == InitBacklog /\ [][NextBacklog]_vars

\* Termination: a few enqueues, one customer or a small upload at a time,
\* before, while and after a drain.  Every timer of run() fires and every
\* request to /send-sms is answered (the provider's calls return): a drain
\* that can take a step takes one.
FairUser ==
  \/ handleSave(GoodSettings)
  \/ \E phone \in Phones : ModalAccepts(phone) /\ handleAddCustomer("Ann", phone)
  \/ nextId <= MaxCustomers + 1 /\ handleBulkAddCustomers(BulkData(SmallBulk))

NextFair == FairUser \/ Drain

SpecFair == Init /\ [][NextFair]_vars /\ WF_vars(Drain)

\* The normalizers on their own: a request or a row of an upload brings a
\* number, the route and the upload normalize it, and a value that was
\* accepted may be handed in again.
Receive(input) ==
  /\ raw' = input
  /\ norm' = NotCalled
  /\ rowNorm' = NotCalled
  /\ outgoing' = NothingSent
  /\ UNCHANGED <<smsSendStatus, unmounted, request, response, customers, activityLogs,
                 smsQueue, queueActive, settings, runs, direct, nextId, queueGhost,
                 twilioCalls, ops, faults>>

Normalize ==
  /\ norm = NotCalled
  /\ norm' = normalizePhone(raw)
  /\ UNCHANGED <<smsSendStatus, unmounted, raw, rowNorm, outgoing, request, response, customers,
                 activityLogs, smsQueue, queueActive, settings, runs, direct, nextId,
                 queueGhost, twilioCalls, ops, faults>>

NormalizeRow ==
  /\ rowNorm = NotCalled
  /\ rowNorm' = normalizePhoneLocal(raw)
  /\ UNCHANGED <<smsSendStatus, unmounted, raw, norm, outgoing, request, response, customers,
                 activityLogs, smsQueue, queueActive, settings, runs, direct, nextId,
                 queueGhost, twilioCalls, ops, faults>>

NormalizeAgain ==
  /\ norm.ok /\ raw # norm.value
  /\ raw' = norm.value
  /\ norm' = normalizePhone(norm.value)
  /\ rowNorm' = NotCalled
  /\ outgoing' = NothingSent
  /\ UNCHANGED <<smsSendStatus, unmounted, request, response, customers, activityLogs,
                 smsQueue, queueActive, settings, runs, direct, nextId, queueGhost,
                 twilioCalls, ops, faults>>

\* A WhatsApp route whose tests of the fields and of the two numbers have
\* passed builds what it hands to its provider.
CallProvider(route, fromWa) ==
  /\ norm.ok /\ outgoing = NothingSent
  /\ route = "/send-twilio-whatsapp" => normalizePhone(fromWa).ok
  /\ outgoing' = IF route = "/send-twilio-whatsapp"
             THEN twilioWaParams(route, fromWa, normalizePhone(fromWa), norm)
             ELSE metaPayload(route, norm)
  /\ UNCHANGED <<smsSendStatus, unmounted, raw, norm, rowNorm, request, response,
                 customers, activityLogs, smsQueue, queueActive, settings, runs, direct,
                 nextId, queueGhost, twilioCalls, ops, faults>>

NextNormalize ==
  \/ \E input \in RawInputs : Receive(input)
  \/ Normalize
  \/ NormalizeRow
  \/ NormalizeAgain
  \/ \E route \in WhatsAppRoutes, fromWa \in Senders : CallProvider(route, fromWa)

InitNormalize == InitWith({<<>>})

SpecNormalize == InitNormalize /\ [][NextNormalize]_vars

\* The server on its own: a request arrives, the stack answers it.  The
\* server holds no customer: the application's state is out of its reach.
Arrives(rq) ==
  /\ request = NoRequest \/ response # NoReply
  /\ request' = rq
  /\ response' = NoReply
  /\ UNCHANGED <<smsSendStatus, unmounted, raw, norm, rowNorm, outgoing, customers, activityLogs, smsQueue, queueActive,
                 settings, runs, direct, nextId, queueGhost, twilioCalls, ops, faults>>

Responds ==
  /\ request # NoRequest /\ response = NoReply
  /\ response' = Respond(request)
  /\ UNCHANGED <<smsSendStatus, unmounted, raw, norm, rowNorm, outgoing, request, customers, activityLogs, smsQueue,
                 queueActive, settings, runs, direct, nextId, queueGhost, twilioCalls,
                 ops, faults>>

NextServer == (\E rq \in Requests : Arrives(rq)) \/ Responds

InitServer == InitWith({<<StoredCustomer(PhoneE164, Sent)>>})

SpecServer == InitServer /\ [][NextServer]_vars

\* Input errors: settings or a customer with a field missing.
InputUser ==
  \/ \E sett \in InputSettings : handleSave(sett)
  \/ handleAddCustomer("Ann", PhoneE164)
  \/ \E id \in 1..(nextId - 1) :
       SendButtonEnabled(customers, id) /\ handleSendMessage(id)

NextInput == InputUser \/ Drain

InitInput == InitWith(InputLists)

SpecInput == InitInput /\ [][NextInput]_vars

\* A silent provider: the timers of run() fire and run() goes on after every
\* answer, but nothing makes /send-sms answer or the fetch fail.
ClientSteps ==
  \E i \in DOMAIN runs :
    \/ DrainSkip(i)
    \/ DrainSendMissing(i)
    \/ DrainSendFetch(i)
    \/ DrainFetchResolve(i)
    \/ DrainPauseElapsed(i)
    \/ DrainBatchWaitElapsed(i)

SpecHang == Init /\ [][NextFair]_vars /\ WF_vars(ClientSteps)

\* Teardown: the application goes away while a drain is under way.
NextTeardown ==
  \/ ~unmounted /\ QueueUser
  \/ ~unmounted /\ Drain
  \/ Unmount
  \/ unmounted /\ Orphan

SpecTeardown == Init /\ [][NextTeardown]_vars

\* Reviews: feedback arrives while customers are sent to and click.
FeedbackUser ==
  \/ handleSave(GoodSettings)
  \/ handleAddCustomer("Ann", PhoneE164)
  \/ \E id \in 1..(nextId - 1) : handleOpenFunnel(id)
  \/ \E k \in DOMAIN customers : handleSendSms(<<customers[k]>>, GoodSettings)
  \/ \E k \in DOMAIN customers, sentiment \in {"positive", "negative"} :
       handleQuickSubmit(customers[k], sentiment)
  \/ handleQuickSubmit(NoCustomer, "positive")

NextFeedback == FeedbackUser \/ Drain \/ DirectSend

SpecFeedback == Init /\ [][NextFeedback]_vars

\* The feedback lists: several reviews, for customers of the list, for a
\* customer the page still shows after its deletion (found by its phone or
\* not at all) and for nobody, while customers are added, sent to, click
\* and are deleted.
MaxReviews == 2
PhoneDigits == Tail(PhoneE164)
PageCustomers ==
  {[id |-> customers[k].id, phone |-> customers[k].phone] : k \in DOMAIN customers}
    \cup {NoCustomer, [id |-> EmptyId, phone |-> PhoneDigits],
           [id |-> EmptyId, phone |-> PhoneShort]}

ReviewsUser ==
  \/ handleSave(GoodSettings)
  \/ handleAddCustomer("Ann", PhoneE164)
  \/ \E id \in 1..(nextId - 1) : handleOpenFunnel(id)
  \/ \E id \in 1..(nextId - 1) : handleDeleteCustomer(id)
  \/ \E customer \in PageCustomers, sentiment \in {"positive", "negative"} :
       /\ CountFeedback(customers) < MaxReviews
       /\ addFeedback(customer.id, "rating", sentiment, customer.phone)

NextReviews == ReviewsUser \/ Drain

InitReviews == InitWith({<<>>, <<StoredCustomer(PhoneE164, Sent)>>})

SpecReviews == InitReviews /\ [][NextReviews]_vars

\* ------------------------------------------------------------ properties
Stepped(i) == i \in DOMAIN runs /\ i \in DOMAIN runs' /\ runs'[i] # runs[i]

\* C1: at most one drain (an invocation of run() that has not returned) is
\* active at any time, whatever enqueue calls interleave with it.
C1_SingleActiveDrain == Len(runs) <= 1 /\ (runs # <<>> => queueActive)

\* an id was enqueued while a drain was in progress
C1_Witness == Len(runs) = 1 /\ smsQueue # <<>>

\* C2: a customer whose id was enqueued more than once receives at most one
\* provider call from the drain, because the Pending guard sees the status
\* the customer has when the id is processed.
C2_AtMostOneProviderCall ==
  \A key \in DOMAIN twilioCalls : key[1] = "drain" => twilioCalls[key] <= 1

\* C3: an id enqueued while its customer was not Pending is passed over by
\* the drain: no provider call, no status change, no activity entry.
C3_NonPendingSkipped ==
  [][\A i \in DOMAIN runs :
       (AtItem(i) /\ runs[i].ghost[runs[i].idx] # Pending /\ Stepped(i))
         => /\ runs'[i] = AfterItem(runs[i])
            /\ customers' = customers
            /\ activityLogs' = activityLogs
            /\ twilioCalls' = twilioCalls]_vars

\* the drain has passed over the re-enqueued id of a Failed customer while
\* credentials were saved
C3_Witness ==
  \E i \in DOMAIN runs :
    /\ runs[i].idx > 1
    /\ runs[i].ghost[1] = Failed
    /\ runs[i].settings = GoodSettings
    /\ StatusOf(customers, runs[i].chunk[1]) = Failed

\* C4: a funnel click on a customer while the drain has a send for that
\* customer in flight is not lost: the send outcome applied after the click
\* keeps the click's result.
Concluded(i) ==
  /\ i \in DOMAIN runs /\ i \in DOMAIN runs'
  /\ runs[i].pc \in {"item", "fetch", "resp"} /\ runs'[i].pc = "pause"

C4_ClickSurvivesOutcome ==
  [][\A i \in DOMAIN runs :
       (/\ Concluded(i)
        /\ runs[i].statusAtSend = Pending
        /\ StatusOf(customers, Current(runs[i])) = Clicked)
         => StatusOf(customers', Current(runs[i])) = Clicked]_vars

\* C5: a drain takes at most BatchSize ids from the front of the backlog,
\* fewer only when it takes the whole backlog, visits them one at a time in
\* backlog order, starts only when no earlier batch is unfinished and ends
\* only when every id of its batch has been visited.
BatchEnds == runs # <<>> /\ runs[1].pc = "batchWait" /\ runs' # runs
BatchStarts == runs' # <<>> /\ runs' # runs /\ (runs = <<>> \/ BatchEnds)

C5_BatchesOfTenInOrder ==
  /\ [](\A i \in DOMAIN runs :
          /\ Len(runs[i].chunk) \in 1..BatchSize
          /\ runs[i].idx \in 1..(Len(runs[i].chunk) + 1)
          /\ runs[i].pc = "batchWait" <=> runs[i].idx = Len(runs[i].chunk) + 1)
  /\ [][/\ (runs # <<>> /\ ~BatchEnds) =>
             /\ Len(runs') = 1
             /\ runs'[1].chunk = runs[1].chunk
             /\ runs'[1].idx \in {runs[1].idx, runs[1].idx + 1}
        /\ BatchStarts =>
             /\ Len(runs') = 1
             /\ runs'[1].idx = 1
             /\ Len(runs'[1].chunk) = BatchSize \/ smsQueue' = <<>>
             /\ \E n \in 0..Len(runs'[1].chunk) :
                  SubSeq(runs'[1].chunk, 1, n) = SubSeq(smsQueue, 1, n)
                  /\ (n < Len(runs'[1].chunk) => Len(smsQueue) = n)
             /\ \A k \in 1..(Len(runs'[1].chunk) - 1) :
                  runs'[1].chunk[k] < runs'[1].chunk[k + 1]]_vars

\* the batch of two that follows a full batch of ten
C5_Witness ==
  \E i \in DOMAIN runs :
    /\ Len(runs[i].chunk) = MaxBulk - BatchSize
    /\ runs[i].idx = 2
    /\ \A k \in 1..BatchSize :
         StatusOf(customers, runs[i].chunk[1] - k) \in {Sent, Failed}

\* C6: once n Pending customers have been enqueued and drained without a
\* failure, all n are Sent and the log holds n "Sent SMS" entries, in the
\* order of enqueueing.
FailureActions ==
  {"SMS failed (missing credentials)", "SMS failed (21211)", "SMS failed (21608)",
   "SMS failed (error)", "SMS network error"}

RECURSIVE OldestFirst(_)
OldestFirst(logs) ==
  IF logs = <<>> THEN <<>> ELSE Append(OldestFirst(Tail(logs)), Head(logs))

SentNames ==
  LET sent == SelectSeq(OldestFirst(activityLogs), LAMBDA e : e.action = "Sent SMS")
  IN [k \in DOMAIN sent |-> sent[k].customerName]

\* In the batching specification ids 2 .. nextId - 1 were enqueued, in order.
EnqueuedNames == [k \in 1..(nextId - 2) |-> Find(customers, k + 1).name]

Drained == runs = <<>> /\ smsQueue = <<>> /\ ~queueActive

NoFailure == \A k \in DOMAIN activityLogs : activityLogs[k].action \notin FailureActions

C6_AllSentInEnqueueOrder ==
  (Drained /\ NoFailure) =>
     /\ \A id \in 2..(nextId - 1) : StatusOf(customers, id) = Sent
     /\ SentNames = EnqueuedNames

\* twelve uploaded customers, drained
C6_Witness ==
  /\ Drained /\ NoFailure
  /\ nextId = MaxBulk + 2
  /\ Len(SentNames) = MaxBulk

\* C7: a customer whose phone fails normalization goes from Pending to Failed
\* and the provider is never called for it.
C7_InvalidPhoneNeverReachesProvider ==
  /\ \A key \in DOMAIN twilioCalls : normalizePhone(key[3]).ok
  /\ \A i \in DOMAIN runs :
       (runs[i].pc = "pause" /\ ~normalizePhone(Target(runs[i]).phone).ok)
         => StatusOf(customers, Current(runs[i])) = Failed

\* the send to "abc" was answered 400 by the route and marked Failed
C7_Witness ==
  \E i \in DOMAIN runs :
    /\ runs[i].pc = "pause"
    /\ Target(runs[i]).phone = PhoneAbc
    /\ runs[i].resp.status = 400
    /\ runs[i].settings = GoodSettings
    /\ StatusOf(customers, Current(runs[i])) = Failed
    /\ activityLogs[1] = [action |-> "SMS failed (error)",
                          customerName |-> Target(runs[i]).name]

\* C8: a failed send leaves the drain as a successful one would: the run
\* goes on with the same batch at the same place and the backlog is
\* untouched; a run ends only after the last id of its batch.
C8_FailureDoesNotAbortDrain ==
  [][/\ \A i \in DOMAIN runs :
          (runs[i].pc \in {"item", "fetch", "resp"}
           /\ activityLogs' # activityLogs
           /\ Head(activityLogs').action \in FailureActions)
            => /\ runs' = [runs EXCEPT ![i].pc = "pause"]
               /\ smsQueue' = smsQueue
               /\ queueActive' = queueActive
     /\ Len(runs') < Len(runs) => runs[1].idx = Len(runs[1].chunk) + 1]_vars

\* the customer after the one whose send failed was sent to, in the same batch
C8_Witness ==
  \E i \in DOMAIN runs :
    /\ runs[i].idx >= 2 /\ runs[i].idx <= Len(runs[i].chunk)
    /\ runs[i].pc = "pause"
    /\ Len(activityLogs) >= 2
    /\ activityLogs[1] = [action |-> "Sent SMS",
                          customerName |-> Target(runs[i]).name]
    /\ activityLogs[2].action \in {"SMS failed (21608)", "SMS network error"}
    /\ activityLogs[2].customerName =
         Find(runs[i].customers, runs[i].chunk[runs[i].idx - 1]).name

\* C9: the step that concludes a send attempt writes the status of the
\* customer, if it still exists, once: Sent after a successful answer,
\* Failed otherwise; no other step of the drain writes customers.
C9_OneStatusWritePerAttempt ==
  [][\A i \in DOMAIN runs :
       Stepped(i) =>
         IF Concluded(i)
         THEN /\ customers' =
                   [k \in DOMAIN customers |->
                      IF customers[k].id = Current(runs[i])
                      THEN [customers[k] EXCEPT
                              !.status = StatusOf(customers', Current(runs[i]))]
                      ELSE customers[k]]
              /\ HasCustomer(customers, Current(runs[i])) =>
                   /\ StatusOf(customers', Current(runs[i])) \in {Sent, Failed}
                   /\ StatusOf(customers', Current(runs[i])) = Sent =>
                        runs[i].pc = "resp" /\ runs[i].resp.success
         ELSE customers' = customers]_vars

\* an attempt on a Pending customer ended in Sent after one provider call
C9_Witness ==
  \E i \in DOMAIN runs :
    /\ runs[i].pc = "pause"
    /\ runs[i].statusAtSend = Pending
    /\ StatusOf(customers, Current(runs[i])) = Sent
    /\ Calls(<<"drain", Current(runs[i]), Target(runs[i]).phone>>) = 1

\* C10: every change of a customer's status is one of Pending -> Sent,
\* Pending -> Failed, Sent -> Clicked, Clicked -> Reviewed.
StatusEdges ==
  {<<Pending, Sent>>, <<Pending, Failed>>, <<Sent, Clicked>>, <<Clicked, Reviewed>>}

C10_OnlyStatusMachineEdges ==
  [][\A id \in 1..(nextId - 1) :
       (/\ HasCustomer(customers, id) /\ HasCustomer(customers', id)
        /\ StatusOf(customers', id) # StatusOf(customers, id))
         => <<StatusOf(customers, id), StatusOf(customers', id)>> \in StatusEdges]_vars

\* C11: a customer's status is changed only by the drain applying a send
\* outcome and by the funnel click (the code has no status reset); adding
\* feedback, enqueueing, the messenger page's send and saving settings
\* leave every status as it is.
StatusChanged(id) ==
  /\ HasCustomer(customers, id) /\ HasCustomer(customers', id)
  /\ StatusOf(customers', id) # StatusOf(customers, id)

C11_StatusOnlyByDrainOrClick ==
  [][(\E id \in 1..(nextId - 1) : StatusChanged(id))
       => \/ \E i \in DOMAIN runs : Concluded(i)
          \/ \E id \in 1..(nextId - 1) : handleOpenFunnel(id)]_vars

\* C12: the resend of a Failed customer makes it Pending again and the drain
\* that reaches the re-enqueued id sends to it instead of skipping it.
C12_ResendReattemptsFailed ==
  [][/\ \A id \in 1..(nextId - 1) :
          (StatusOf(customers, id) = Failed /\ handleSendMessage(id))
            => StatusOf(customers', id) = Pending
     /\ \A i \in DOMAIN runs :
          (AtItem(i) /\ runs[i].ghost[runs[i].idx] = Failed)
            => ~DrainSkip(i)]_vars

\* C13: when a review is completed for a customer whose status is Clicked,
\* the status becomes Reviewed.
C13_ReviewMakesReviewed ==
  [][\A k \in DOMAIN customers :
       (/\ customers[k].status = Clicked
        /\ \E sentiment \in {"positive", "negative"} :
             handleQuickSubmit(customers[k], sentiment))
         => StatusOf(customers', customers[k].id) = Reviewed]_vars

\* C14: every change of a customer's status, by the drain, by the funnel
\* click or by a direct send, comes with exactly one new activity entry,
\* which carries that customer's name.
C14_OneLogEntryPerTransition ==
  [][\A id \in 1..(nextId - 1) :
       StatusChanged(id) =>
         /\ Len(activityLogs') = Len(activityLogs) + 1
         /\ Tail(activityLogs') = activityLogs
         /\ Head(activityLogs').customerName = Find(customers, id).name]_vars

\* a customer was sent to by the drain and then clicked: two entries, in order
C14_Witness ==
  \E k \in DOMAIN customers :
    /\ customers[k].status = Clicked
    /\ Len(activityLogs) >= 2
    /\ activityLogs[1] = [action |-> "Clicked review link (simulation)",
                          customerName |-> customers[k].name]
    /\ activityLogs[2] = [action |-> "Sent SMS", customerName |-> customers[k].name]

\* The drain has exited and every customer that was enqueued was attempted.
Settled ==
  /\ Drained
  /\ \A id \in 2..(nextId - 1) : StatusOf(customers, id) # Pending

\* An enqueue that finds the drain exited: the ids the handler appended are
\* the chunk and the backlog of a new run().
FreshDrain ==
  (Drained /\ nextId' > nextId) =>
    /\ queueActive'
    /\ Len(runs') = 1
    /\ runs'[1].pc = "item" /\ runs'[1].idx = 1
    /\ runs'[1].chunk \o smsQueue' = [k \in 1..(nextId' - nextId) |-> nextId + k - 1]

\* C15: when every request is answered, the backlog empties and the
\* drain-active flag is cleared again and again, whatever was enqueued and
\* whether sends fail, with every enqueued customer attempted; and an enqueue
\* made after the drain has exited starts a fresh drain on the new ids.
C15_BacklogEventuallyDrains == ([]<>Settled) /\ [][FreshDrain]_vars

C15_Witness ==
  /\ Settled
  /\ \E k \in 2..Len(activityLogs) :
       /\ activityLogs[k].action \in {"Sent SMS"} \cup FailureActions
       /\ activityLogs[k - 1].action \in {"Bulk uploaded", "Added to customer list"}
  /\ \E id \in 2..(nextId - 1) : StatusOf(customers, id) = Failed
  /\ \E id \in 2..(nextId - 1) : StatusOf(customers, id) = Sent

\* A request that the server passes on to the provider.
ReachesProvider(i) ==
  IsCall(sendSmsPrecheck(SmsRequest(runs[i].settings, Target(runs[i]))))

\* C16: once the application is torn down, a run() starts no request that
\* ends in a provider call, neither for the rest of its batch nor for the
\* backlog; only a call already in flight settles.
C16_NoSendAfterTeardown ==
  [][unmounted => \A i \in DOMAIN runs : ~(DrainSendFetch(i) /\ ReachesProvider(i))]_vars

\* await fetch(`${API_BASE}/send-sms`) has not come back
InFlight == \E i \in DOMAIN runs : runs[i].pc = "fetch"

\* C17: a request that gets no answer does not hold the drain for ever: the
\* wait for it ends (by a timeout), whether or not an answer comes.
C17_SilentCallIsEnded == InFlight ~> ~InFlight

\* The five inputs of a send are all there.
Complete(sett, cust) ==
  /\ sett.twilioAccountSid # "" /\ sett.twilioAuthToken # ""
  /\ sett.twilioPhoneNumber # <<>> /\ cust.phone # <<>>
  /\ sett.messageTemplate # ""

\* C18: a send with missing credentials, sender number, destination phone or
\* message body never reaches the provider: the provider is called only for
\* a complete request, and an attempt with a missing input ends, without a
\* call, with the customer Failed; the drain neither enqueues it again nor
\* starts over.
C18_InputErrorsStopBeforeProvider ==
  [][/\ twilioCalls' # twilioCalls =>
          \E i \in DOMAIN runs :
            runs[i].pc = "fetch" /\ Complete(runs[i].settings, Target(runs[i]))
     /\ \A i \in DOMAIN runs :
          (Concluded(i) /\ ~Complete(runs[i].settings, Target(runs[i]))) =>
            /\ twilioCalls' = twilioCalls
            /\ runs[i].pc = "resp" => runs[i].resp.status = 400
            /\ StatusOf(customers', Current(runs[i])) = Failed
            /\ smsQueue' = smsQueue
            /\ Len(runs') = Len(runs) /\ runs'[i].idx = runs[i].idx]_vars

\* one customer failed for missing credentials, another was answered
\* "Missing required fields." for its empty body; the provider was not called
C18_Witness ==
  /\ twilioCalls = <<>>
  /\ \E k \in DOMAIN activityLogs :
       activityLogs[k].action = "SMS failed (missing credentials)"
  /\ \E i \in DOMAIN runs :
       /\ runs[i].pc = "pause"
       /\ runs[i].settings = NoBody
       /\ runs[i].resp.error = "Missing required fields."
       /\ StatusOf(customers, Current(runs[i])) = Failed

\* The first character of raw that is a digit or a '+' is a '+'.
BeginsWithPlus(s) ==
  \E k \in DOMAIN s :
    s[k] = "+" /\ \A j \in 1..(k - 1) : s[j] \notin Digits \cup {"+"}

\* The digits of raw, after a '+' if raw begins with one.
Canonical(s) == (IF BeginsWithPlus(s) THEN <<"+">> ELSE <<>>) \o DigitsOf(s)

\* C19: a '+' that is not leading is discarded like any other noise: the
\* verdict and the value of normalizePhone are those of the digits of the
\* input, after a '+' if the input begins with one.
C19_ResultDependsOnDigitsAndLeadingPlus ==
  norm # NotCalled =>
    /\ norm.ok = normalizePhone(Canonical(raw)).ok
    /\ norm.value = normalizePhone(Canonical(raw)).value

\* raw holds exactly one '+', before all its digits
OnePlusFirst(s) ==
  \E k \in DOMAIN s :
    /\ s[k] = "+"
    /\ \A j \in DOMAIN s : j # k => s[j] # "+"
    /\ \A j \in 1..(k - 1) : s[j] \notin Digits

NoPlus(s) == \A k \in DOMAIN s : s[k] # "+"

\* The digits of raw from its first digit that is not a zero.
Significant(s) ==
  LET d == DigitsOf(s)
      nz == {k \in DOMAIN d : d[k] # "0"}
  IN IF nz = {} THEN <<>>
     ELSE SubSeq(d, CHOOSE k \in nz : \A j \in nz : k <= j, Len(d))

\* exactly ten digits, the first of them 6, 7, 8 or 9
Domestic(d) == Len(d) = 10 /\ d[1] \in {"6", "7", "8", "9"}

ProviderFailed(routes) ==
  /\ response # NoReply
  /\ request.method = "POST" /\ request.route \in routes
  /\ FieldsSeen(request) = "complete" /\ ~ParseFails(request)
  /\ request.payload # "toolarge"
  /\ request.answer.kind # "throws" /\ ~IsOk(request.answer.status)

NotFoundHints == {"Phone Number ID not found or token lacks permission."}

\* C23: on both Meta routes a provider answer with HTTP status 404 gets the
\* hint about the phone number id and the token's permission, whatever code
\* and subcode its body carries.
C23_NotFoundWinsOverCode ==
  (ProviderFailed(MetaRoutes) /\ request.answer.status = 404) =>
    response.hint \in NotFoundHints

ExpiredHints == {"Access token expired."}
InvalidTokenHints == {"Invalid access token.", "Invalid token."}

\* C24: on both Meta routes a provider error that is not a 404, with code 190,
\* gets the hint that the access token expired for subcode 463 and the hint
\* that it is invalid for subcode 467.
C24_TokenSubcodes ==
  (/\ ProviderFailed(MetaRoutes) /\ request.answer.status # 404
   /\ request.answer.kind = "json" /\ request.answer.code = 190) =>
    /\ request.answer.subcode = 463 => response.hint \in ExpiredHints
    /\ request.answer.subcode = 467 => response.hint \in InvalidTokenHints

\* the template route answered a 401 with code 190 and subcode 467
C24_Witness ==
  /\ request.route = "/send-whatsapp-template"
  /\ request.answer.status = 401
  /\ request.answer.code = 190 /\ request.answer.subcode = 467
  /\ response.status = 401
  /\ response.hint = "Invalid token."

InvalidParameterHints == {"Invalid parameter."}
NotWhatsAppUserHints ==
  {"Recipient is not a valid WhatsApp user for this API or may have blocked messages."}

\* C25: on both Meta routes a provider error that is not a 404 gets the
\* invalid-parameter hint for code 100 and the hint about a recipient who is
\* not a WhatsApp user for code 131026.
C25_ParameterAndRecipientCodes ==
  (/\ ProviderFailed(MetaRoutes) /\ request.answer.status # 404
   /\ request.answer.kind = "json") =>
    /\ request.answer.code = 100 => response.hint \in InvalidParameterHints
    /\ request.answer.code = 131026 => response.hint \in NotWhatsAppUserHints

RejectionHints ==
  {"WhatsApp sender is not approved to message this recipient or message template/permissions missing.",
   "Message failed by WhatsApp"}

\* C26: the hint of a Twilio failure is decided by the route and the error
\* code: on /send-sms 21211 gets the hint about the destination's format and
\* SMS capability and 21608 the one about a trial account's unverified
\* number; on /send-twilio-whatsapp 21606 gets the hint about a sender that is
\* not WhatsApp-enabled and 63015, 63016, 63018 a hint about rejected
\* content, permission or template.
C26_TwilioHintsByCode ==
  ProviderFailed(TwilioRoutes) =>
    LET code == request.answer.code IN
    IF request.route = "/send-sms"
    THEN /\ code = 21211 =>
              response.hint =
                "Check destination number formatting (must be in E.164 and enabled for SMS)."
         /\ code = 21608 =>
              response.hint = "Trial account: destination number not verified."
    ELSE /\ code = 21606 =>
              response.hint =
                "The From WhatsApp number is not a valid WhatsApp-enabled Twilio number."
         /\ code \in {63015, 63016, 63018} => response.hint \in RejectionHints

\* /send-twilio-whatsapp answered a failure with code 63015
C26_Witness ==
  /\ request.route = "/send-twilio-whatsapp"
  /\ request.answer.code = 63015
  /\ response.status = 500 /\ ~response.success
  /\ response.code = 63015
  /\ response.hint = "Message failed by WhatsApp"

\* No branch of the route's chain matches the provider's answer.
Unmatched(rq) ==
  /\ rq.answer.status # 404
  /\ ErrorOf(rq.answer).code \notin
       {21211, 21606, 21608, 63015, 63016, 63018, 100, 190, 131026}
  /\ ~Mentions24h(ErrorOf(rq.answer).details)
  /\ ~MentionsType(ErrorOf(rq.answer).details)

\* C27: whatever status, code, subcode and details the provider answers
\* with, an error body that is missing or does not parse included, the route
\* answers with a JSON failure; an answer no branch matches gets no hint; and
\* the failure carries the provider's code and subcode as they came.
C27_ClassificationIsTotal ==
  /\ (request # NoRequest /\ response # NoReply) =>
       response.status \in {200, 400, 401, 403, 404, 500}
  /\ (/\ response # NoReply
      /\ request.method = "POST" /\ request.route \in TwilioRoutes \cup MetaRoutes
      /\ FieldsSeen(request) = "complete"
      /\ request.answer.kind = "throws") =>
       response.status = 500 /\ response.type = "json" /\ ~response.success
  /\ ProviderFailed(TwilioRoutes \cup MetaRoutes) =>
       /\ response.type = "json" /\ ~response.success
       /\ Unmatched(request) => response.hint = NoHint
       /\ response.code = ErrorOf(request.answer).code
       /\ response.subcode = ErrorOf(request.answer).subcode

\* the text route passed on an unknown code and its subcode without a hint
C27_Witness ==
  /\ request.route = "/send-whatsapp"
  /\ request.answer.status = 400
  /\ request.answer.code = 99999 /\ request.answer.subcode = 463
  /\ response.status = 400
  /\ response.code = 99999 /\ response.subcode = 463
  /\ response.hint = NoHint

\* C28: a POST to a delivery-status webhook is answered with a 2xx status
\* whatever its payload and content type, and leaves the customers as they
\* were.
C28_WebhooksAlwaysAccept ==
  (response # NoReply /\ request.method = "POST" /\ request.route \in WebhookRoutes) =>
    /\ IsOk(response.status)
    /\ customers = <<StoredCustomer(PhoneE164, Sent)>>

\* C30: every response of the server is JSON, on every route and for every
\* error.
C30_EveryResponseIsJson == response # NoReply => response.type = "json"
\* The loop of a batch send has ended and its summary is being written.
BatchEnded(j) == DirectPauseElapsed(j) /\ LastRecipient(direct[j])

\* C29: after a batch send to n recipients every recipient is counted once,
\* as a success or as a failure; with at least one failure the summary shows
\* both counts and the message of the first failure, and when every failure
\* has the provider code 21608 it is the summary of the trial account.
C29_SummaryCountsAndFirstFailure ==
  [][\A j \in DOMAIN direct :
       BatchEnded(j) =>
         LET d == direct[j] IN
         /\ d.success + Len(d.failures) = Len(d.recipients)
         /\ smsSendStatus'.success = d.success
         /\ smsSendStatus'.total = Len(d.recipients)
         /\ d.failures # <<>> =>
              /\ smsSendStatus'.failed = Len(d.failures)
              /\ smsSendStatus'.first = d.failures[1].error
              /\ (\A k \in DOMAIN d.failures : d.failures[k].code = 21608) =>
                   smsSendStatus'.kind = "trial"]_vars

\* The entries the log held are all still there, in their order, behind the
\* new ones.
LogKept == 
  /\ Len(activityLogs') >= Len(activityLogs)
  /\ SubSeq(activityLogs', Len(activityLogs') - Len(activityLogs) + 1,
            Len(activityLogs')) = activityLogs

\* C31: the activity log is append-only: a step that logs adds exactly one
\* entry, and no step, deleting a customer or clearing the list included,
\* removes, rewrites or reorders an entry the log already holds.
C31_LogIsAppendOnly ==
  [][/\ LogKept
     /\ Len(activityLogs') <= Len(activityLogs) + 1
     /\ (\E id \in 1..(nextId - 1) : handleDeleteCustomer(id))
          => Len(activityLogs') = Len(activityLogs) + 1
     /\ handleClearCustomers => activityLogs' = activityLogs]_vars

\* the list was cleared after a deletion had been logged on top of an older
\* entry
C31_Witness ==
  /\ customers = <<>>
  /\ Len(activityLogs) >= 2
  /\ \E k \in DOMAIN activityLogs : activityLogs[k].action = "Deleted customer"

\* C32: a customer deleted (or cleared) while a drain is active, before the
\* drain reaches its id, is not found when the id is processed: the drain
\* passes over the id, asks nothing of the provider for it and logs nothing
\* for it.
C32_DeletedCustomerIsPassedOver ==
  [][\A i \in DOMAIN runs :
       /\ (/\ AtItem(i)
           /\ HasCustomer(runs[i].customers, Current(runs[i]))
           /\ ~HasCustomer(customers, Current(runs[i]))
           /\ Stepped(i))
            => /\ runs'[i] = AfterItem(runs[i])
               /\ activityLogs' = activityLogs
       /\ (\E outcome \in TwilioOutcomes : ServerCallsTwilio(i, outcome))
            => runs[i].statusAtSend # "none"]_vars

\* A run() leaves: its last timer has fired.
Ended == \E i \in DOMAIN runs : DrainBatchWaitElapsed(i)
\* A run() begins in this step, and the chunk it takes.
Begun == IF Ended THEN runs' # <<>> ELSE Len(runs') > Len(runs)
Removed == IF Begun THEN runs'[Len(runs')].chunk ELSE <<>>
\* The ids this step hands to enqueueSmsCustomers: those of the customers
\* it creates, or the id of the row whose Send button was pressed.
Resent == {id \in 1..(nextId - 1) : handleSendMessage(id)}
Given ==
  IF nextId' > nextId THEN [k \in 1..(nextId' - nextId) |-> nextId + k - 1]
  ELSE IF Resent # {} THEN <<CHOOSE id \in Resent : TRUE>>
  ELSE <<>>

\* C33: the backlog is conserved.  Enqueue appends the given ids, in order,
\* behind the ids that wait; ids leave the backlog from the front and only
\* as the chunk of a run() that begins; a run() goes through its chunk id
\* by id and leaves only when it is past the last one, also when enqueues
\* interleave with it.
C33_BacklogIsConserved ==
  [][/\ Removed \o smsQueue' = smsQueue \o Given
     /\ Drain => Given = <<>>
     /\ Ended => \A i \in DOMAIN runs : runs[i].idx > Len(runs[i].chunk)
     /\ ~Ended =>
          \A i \in DOMAIN runs :
            /\ i \in DOMAIN runs'
            /\ runs'[i].chunk = runs[i].chunk
            /\ runs'[i].idx \in {runs[i].idx, runs[i].idx + 1}]_vars

\* a row of the upload was sent again while a run() was halfway through a
\* full chunk, and its id waits behind the rest of the upload
C33_Witness ==
  /\ \E i \in DOMAIN runs : Len(runs[i].chunk) = BatchSize /\ runs[i].idx > 1
  /\ Len(smsQueue) = 2
  /\ smsQueue[2] < smsQueue[1]

\* The run()s whose sendSmsToCustomer has not returned.
SendsInFlight == {i \in DOMAIN runs : runs[i].pc \in {"fetch", "resp"}}

\* C34: the sends of the drain are strictly sequential.  At most one is in
\* flight; a run() with a send in flight does nothing but settle it; after a
\* send it goes on only through the pacing wait of the item; it leaves only
\* through the longer wait after its chunk, and a run() begins only when no
\* other is left.
C34_SendsAreSequential ==
  [][/\ Cardinality(SendsInFlight) <= 1
     /\ Begun => Len(runs') = 1
     /\ \A i \in DOMAIN runs :
          /\ i \in SendsInFlight =>
               /\ ~Ended
               /\ runs'[i].pc \in {"fetch", "resp", "pause"}
               /\ runs'[i].idx = runs[i].idx
          /\ (runs[i].pc = "pause" /\ runs' # runs) => DrainPauseElapsed(i)
          /\ (runs[i].pc = "batchWait" /\ runs' # runs) => DrainBatchWaitElapsed(i)
          /\ Ended => runs[i].pc = "batchWait"]_vars

\* the first send of the second chunk of an upload is in flight
C34_Witness ==
  \E i \in DOMAIN runs :
    /\ runs[i].pc = "fetch" /\ runs[i].idx = 1
    /\ Current(runs[i]) = BatchSize + 2
    /\ StatusOf(customers, BatchSize + 1) = Sent

\* C35: the helper of the dashboard's upload agrees with the server's
\* normalizePhone on every input: both accept or both reject, and what they
\* accept they give the same value.
C35_UploadAgreesWithServer ==
  (norm # NotCalled /\ rowNorm # NotCalled) =>
    /\ rowNorm.ok = norm.ok
    /\ norm.ok => rowNorm.value = norm.value

\* both have accepted a domestic number written with leading zeros
C35_Witness ==
  /\ norm # NotCalled /\ rowNorm # NotCalled
  /\ raw # <<>> /\ Head(raw) = "0"
  /\ rowNorm.ok /\ rowNorm.value = <<"+", "9", "1">> \o StripLeadingZeros(raw)

\* '+' followed by 10 to 15 digits
PlusAndDigits(v) ==
  /\ v # <<>> /\ Head(v) = "+"
  /\ AllDigits(Tail(v))
  /\ Len(v) - 1 >= E164Min /\ Len(v) - 1 <= E164Max

\* C36: normalizePhone is idempotent on what it accepts: an accepted value is
\* '+' followed by 10 to 15 digits, and handed in again it is accepted with
\* the same value.
C36_AcceptedValueIsFixedPoint ==
  [][/\ norm.ok => PlusAndDigits(norm.value)
     /\ NormalizeAgain => norm' = norm]_vars

\* the value of a domestic number was handed in again and came back
C36_Witness ==
  /\ norm.ok /\ raw = norm.value
  /\ SubSeq(raw, 1, 3) = <<"+", "9", "1">> /\ Len(raw) = DomesticLen + 3

\* a begins b
IsPrefix(a, b) == Len(a) <= Len(b) /\ SubSeq(b, 1, Len(a)) = a

\* C37: for every customer that stays in the list, the feedback list only
\* grows at its end: no step changes, reorders or removes an entry it
\* already holds.
C37_FeedbackOnlyGrowsAtEnd ==
  [][\A id \in BucketId..(nextId - 1) :
       (HasCustomer(customers, id) /\ HasCustomer(customers', id))
         => IsPrefix(Find(customers, id).feedback, Find(customers', id).feedback)]_vars

\* a customer that has clicked or been sent to holds two reviews, the older
\* one first
C37_Witness ==
  \E k \in DOMAIN customers :
    /\ customers[k].feedback =
         <<[text |-> "rating", sentiment |-> "negative"],
           [text |-> "rating", sentiment |-> "positive"]>>
    /\ customers[k].status \in {Clicked, Failed}

\* The step is the call addFeedback(customer.id, ..., customer.phone).
IsAddFeedback(customer, sentiment) ==
  addFeedback(customer.id, "rating", sentiment, customer.phone)

Least(S) == CHOOSE k \in S : \A j \in S : k <= j
WithId(id) == {k \in DOMAIN customers : customers[k].id = id}
WithDigits(phone) ==
  {k \in DOMAIN customers : DigitsOf(customers[k].phone) = DigitsOf(phone)}

\* The record the feedback is for: its place in the list, 0 for a bucket
\* that is not there yet.
Place(customer) ==
  IF WithId(customer.id) # {} THEN Least(WithId(customer.id))
  ELSE IF customer.phone # <<>> /\ WithDigits(customer.phone) # {}
  THEN Least(WithDigits(customer.phone))
  ELSE IF WithId(BucketId) # {} THEN Least(WithId(BucketId))
  ELSE 0

\* C38: every call of addFeedback stores one new entry on one record: the
\* customer with the id, else the first customer whose phone has the digits
\* of the given phone, else the 'public-feedback' record, made with status
\* Reviewed when it is not there and used again when it is; the number of
\* entries grows by one and every other customer stays as it is.
C38_OneEntryOnOneRecord ==
  [][\A customer \in PageCustomers, sentiment \in {"positive", "negative"} :
       IsAddFeedback(customer, sentiment) =>
         LET entry == [text |-> "rating", sentiment |-> sentiment]
             at == Place(customer) IN
         /\ CountFeedback(customers') = CountFeedback(customers) + 1
         /\ Cardinality({k \in DOMAIN customers' : customers'[k].id = BucketId}) <= 1
         /\ IF at # 0
            THEN /\ DOMAIN customers' = DOMAIN customers
                 /\ customers'[at] =
                      [customers[at] EXCEPT !.feedback = Append(@, entry)]
                 /\ \A k \in DOMAIN customers : k # at => customers'[k] = customers[k]
            ELSE /\ Head(customers').id = BucketId
                 /\ Head(customers').status = Reviewed
                 /\ Head(customers').feedback = <<entry>>
                 /\ Tail(customers') = customers]_vars

\* the bucket was made for one review and used again for the next
C38_Witness ==
  /\ HasCustomer(customers, BucketId)
  /\ Len(Find(customers, BucketId).feedback) = 2

\* C39: provider requests carry normalized numbers in the provider's form:
\* the Twilio WhatsApp route hands over from and to as "whatsapp:" followed
\* by the normalized number, '+' and 10 to 15 digits; the two Meta routes
\* hand over to as the digits of the normalized number, without its '+'.
C39_ProviderAddressForms ==
  outgoing # NothingSent =>
    IF outgoing.route = "/send-twilio-whatsapp"
    THEN /\ outgoing.to = Marker \o norm.value
         /\ PlusAndDigits(norm.value)
         /\ outgoing.from = Marker \o normalizePhone(outgoing.fromWa).value
         /\ PlusAndDigits(Tail(outgoing.from))
    ELSE /\ AllDigits(outgoing.to)
         /\ <<"+">> \o outgoing.to = norm.value

\* a Meta route has sent the digits of a domestic number that came with
\* leading zeros
C39_Witness ==
  /\ outgoing.route \in MetaRoutes
  /\ raw # <<>> /\ Head(raw) = "0"
  /\ outgoing.to = <<"9", "1">> \o StripLeadingZeros(raw)

\* the Twilio route has sent a sender that came with the marker already on it
C39_TwilioWitness ==
  /\ outgoing.route = "/send-twilio-whatsapp"
  /\ Len(outgoing.fromWa) > Len(PhoneE164)
  /\ outgoing.from = Marker \o PhoneE164

====
